---- MODULE Spec2Model ----
(***************************************************************************)
(* A model of the normalization core of the API metadata explorer:        *)
(*   - the mapping engine   (src/src/utils/metadataMapper.ts)             *)
(*   - the mapping validator (src/src/utils/metadataMapper.ts)            *)
(*   - the format detector and the parsers (src/tailwind.config.js, the   *)
(*     file that holds metadataParser.ts after the Tailwind config)       *)
(*                                                                         *)
(* JavaScript objects live in a heap of cells, so that two references to  *)
(* one object are one cell: mapMetadata stores references to parts of its *)
(* source in its result, and walks and writes through them.               *)
(* JavaScript strings are TLA+ strings; the string functions of the code  *)
(* (split, trim, startsWith, includes, toLowerCase, toUpperCase, join)    *)
(* are computed character by character.                                   *)
(***************************************************************************)
EXTENDS Integers, Sequences, FiniteSets, TLC

(***************************************************************************)
(* Bounds of the model.                                                    *)
(***************************************************************************)
\* the longest rule list of a hand-written (non built-in) config
MaxRules == 2
\* the longest list of top-level resources of a RAML-shaped source
MaxRes == 2
\* how deep a document is unfolded when it is read back as a value
ViewDepth == 8
\* the most paths of an OpenAPI document
MaxPaths == 2
\* the most calls of detectFormat on one input
MaxCalls == 2
\* the most variables written in the get parameter of a Census request
MaxVars == 3
\* the largest varLimit a Census request is split with
MaxVarLimit == 3
\* the most files the mapping page is reading at one time
MaxReads == 1

(***************************************************************************)
(* Bind(v, F) is F(v) with v computed once: the `const x = v` of the code. *)
(***************************************************************************)
Bind(v, F(_)) == CHOOSE out \in {F(x) : x \in {v}} : TRUE

(***************************************************************************)
(* Strings.                                                                *)
(***************************************************************************)
Char(s, i) == SubSeq(s, i, i)

StartsWith(s, p) == Len(s) >= Len(p) /\ SubSeq(s, 1, Len(p)) = p

Includes(s, p) ==
  \E i \in 1..(Len(s) - Len(p) + 1) : SubSeq(s, i, i + Len(p) - 1) = p

UpperLetters == "ABCDEFGHIJKLMNOPQRSTUVWXYZ"
LowerLetters == "abcdefghijklmnopqrstuvwxyz"

\* the position of character c in alphabet, 0 when it is not in it
IndexIn(c, alphabet) ==
  IF \E i \in 1..Len(alphabet) : Char(alphabet, i) = c
  THEN CHOOSE i \in 1..Len(alphabet) : Char(alphabet, i) = c
  ELSE 0

LowerChar(c) ==
  IF IndexIn(c, UpperLetters) > 0 THEN Char(LowerLetters, IndexIn(c, UpperLetters)) ELSE c

UpperChar(c) ==
  IF IndexIn(c, LowerLetters) > 0 THEN Char(UpperLetters, IndexIn(c, LowerLetters)) ELSE c

\* s with every character replaced by its image under Op; the string is halved
\* at each step, so that the evaluation is never deeper than log2 of its length
RECURSIVE MapChars(_, _)
MapChars(Op(_), s) ==
  IF Len(s) = 0 THEN ""
  ELSE IF Len(s) = 1 THEN Op(s)
  ELSE LET mid == Len(s) \div 2
       IN MapChars(Op, SubSeq(s, 1, mid)) \o MapChars(Op, SubSeq(s, mid + 1, Len(s)))

\* a string left as it is written
KeepCase(s) == s

ToLowerCase(s) == MapChars(LowerChar, s)

ToUpperCase(s) == MapChars(UpperChar, s)

\* s.trim(): s without the white space at its two ends
WhiteSpace == {" ", "\n", "\t", "\r"}

Trim(s) ==
  LET inked == {i \in 1..Len(s) : Char(s, i) \notin WhiteSpace}
  IN IF inked = {} THEN ""
     ELSE SubSeq(s, CHOOSE i \in inked : \A j \in inked : i <= j,
                    CHOOSE i \in inked : \A j \in inked : j <= i)

\* s.split(sep) for a one-character separator: the pieces between the
\* occurrences of sep, in order
Split(s, sep) ==
  LET seps == {i \in 1..Len(s) : Char(s, i) = sep}
      n == Cardinality(seps) + 1
      nth(k) == CHOOSE i \in seps : Cardinality({j \in seps : j < i}) = k - 1
  IN [k \in 1..n |->
        SubSeq(s, IF k = 1 THEN 1 ELSE nth(k - 1) + 1,
                  IF k = n THEN Len(s) ELSE nth(k) - 1)]

(***************************************************************************)
(* Documents as written (in a config's examples, in a request): a tree.   *)
(* An object is the list of its <<key, value>> pairs in source order.     *)
(***************************************************************************)
TStr(s) == [t |-> "str", s |-> s]
TBool(b) == [t |-> "bool", s |-> IF b THEN "true" ELSE "false"]
TNull == [t |-> "null"]
TUndef == [t |-> "undef"]
TObj(kv) == [t |-> "obj", kv |-> kv]
TArr(items) == [t |-> "arr", items |-> items]

(***************************************************************************)
(* Documents as read back from the heap: the same tree with an object as  *)
(* a function from its keys, so that two documents are structurally equal *)
(* exactly when their views are equal.  A key whose value is undefined is *)
(* left out, as a structural comparison leaves it out.                    *)
(***************************************************************************)
VStr(s) == [t |-> "str", s |-> s]
VBool(b) == [t |-> "bool", s |-> IF b THEN "true" ELSE "false"]
VNull == [t |-> "null"]
VUndef == [t |-> "undef"]
VCut == [t |-> "cut"]
VObj(f) == [t |-> "obj", f |-> f]
VArr(items, f) == [t |-> "arr", items |-> items, f |-> f]

EmptyF == [k \in {} |-> VUndef]

RECURSIVE Norm(_)
Norm(tree) ==
  IF tree.t = "obj" THEN
    LET kv == tree.kv
        keys == {kv[i][1] : i \in DOMAIN kv}
        last(k) == CHOOSE i \in DOMAIN kv :
                     kv[i][1] = k /\ \A j \in DOMAIN kv : kv[j][1] = k => j <= i
        defined == {k \in keys : kv[last(k)][2].t # "undef"}
    IN VObj([k \in defined |-> Norm(kv[last(k)][2])])
  ELSE IF tree.t = "arr" THEN
    VArr([i \in DOMAIN tree.items |-> Norm(tree.items[i])], EmptyF)
  ELSE tree

(***************************************************************************)
(* The heap.  A value is a string, null, undefined or a reference to a    *)
(* cell; a cell is an object (its keys in insertion order and their       *)
(* values) or an array (its items, and its named properties).             *)
(***************************************************************************)
Str(s) == [t |-> "str", s |-> s, id |-> ""]
Bool(b) == [t |-> "bool", s |-> IF b THEN "true" ELSE "false", id |-> ""]
Null == [t |-> "null", s |-> "", id |-> ""]
Undef == [t |-> "undef", s |-> "", id |-> ""]
Ref(id) == [t |-> "ref", s |-> "", id |-> id]

NoProps == [k \in {} |-> Undef]
ObjCell(keys, f) == [kind |-> "obj", keys |-> keys, f |-> f, items |-> <<>>]
ArrCell(items) == [kind |-> "arr", keys |-> <<>>, f |-> NoProps, items |-> items]
EmptyObj == ObjCell(<<>>, NoProps)

IsRef(v) == v.t = "ref"
IsObj(h, v) == IsRef(v) /\ h[v.id].kind = "obj"
IsArr(h, v) == IsRef(v) /\ h[v.id].kind = "arr"

\* key in v, for a reference v
HasProp(h, v, key) == key \in DOMAIN h[v.id].f

\* v[key], for a reference v
GetProp(h, v, key) == IF HasProp(h, v, key) THEN h[v.id].f[key] ELSE Undef

\* v[key] = val, for a reference v: the heap after the assignment
SetProp(h, v, key, val) ==
  LET c == h[v.id]
      keys == IF key \in DOMAIN c.f THEN c.keys ELSE Append(c.keys, key)
      f == [k \in DOMAIN c.f \cup {key} |-> IF k = key THEN val ELSE c.f[k]]
  IN [h EXCEPT ![v.id] = [c EXCEPT !.keys = keys, !.f = f]]

\* the name of the n-th cell created after the cells of h
NewId(h, n) == "#" \o ToString(Cardinality(DOMAIN h) + n)

\* a new cell: the heap with it, and the reference to it
Alloc(h, cell) == [h |-> h @@ (NewId(h, 1) :> cell), v |-> Ref(NewId(h, 1))]

\* A written document placed in the heap.  The cell of a written object or
\* array is named by its place in the document ("$", "$.info", "$.servers[0]");
\* the keys of a written object are distinct.
MemberId(id, key) == id \o "." \o key
ItemId(id, i) == id \o "[" \o ToString(i - 1) \o "]"

ValueOf(tree, id) ==
  IF tree.t = "str" THEN Str(tree.s)
  ELSE IF tree.t = "bool" THEN Bool(tree.s = "true")
  ELSE IF tree.t = "null" THEN Null
  ELSE IF tree.t = "undef" THEN Undef
  ELSE Ref(id)

\* the <<name, cell>> pairs of the objects and arrays of a written document
RECURSIVE Cells(_, _)
Cells(tree, id) ==
  IF tree.t = "obj" THEN
    LET kv == tree.kv
        at(k) == CHOOSE i \in DOMAIN kv : kv[i][1] = k
    IN { <<id, ObjCell([i \in DOMAIN kv |-> kv[i][1]],
                        [k \in {kv[i][1] : i \in DOMAIN kv} |->
                           ValueOf(kv[at(k)][2], MemberId(id, k))])>> }
       \cup UNION { Cells(kv[i][2], MemberId(id, kv[i][1])) : i \in DOMAIN kv }
  ELSE IF tree.t = "arr" THEN
    { <<id, ArrCell([i \in DOMAIN tree.items |-> ValueOf(tree.items[i], ItemId(id, i))])>> }
    \cup UNION { Cells(tree.items[i], ItemId(id, i)) : i \in DOMAIN tree.items }
  ELSE {}

\* the heap that holds a written document, and the document's value
Load(tree) ==
  Bind(Cells(tree, "$"), LAMBDA cs :
    [h |-> [id \in {c[1] : c \in cs} |-> (CHOOSE c \in cs : c[1] = id)[2]],
     v |-> ValueOf(tree, "$")])

\* the document below value v, unfolded to depth d
RECURSIVE View(_, _, _)
View(h, v, d) ==
  IF v.t = "str" THEN VStr(v.s)
  ELSE IF v.t = "bool" THEN VBool(v.s = "true")
  ELSE IF v.t = "null" THEN VNull
  ELSE IF v.t = "undef" THEN VUndef
  ELSE IF d = 0 THEN VCut
  ELSE LET c == h[v.id]
           defined == {k \in DOMAIN c.f : c.f[k].t # "undef"}
           f == [k \in defined |-> View(h, c.f[k], d - 1)]
       IN IF c.kind = "obj" THEN VObj(f)
          ELSE VArr([i \in DOMAIN c.items |-> View(h, c.items[i], d - 1)], f)

(***************************************************************************)
(* jp.query(obj, path) of the jsonpath package, for the paths the configs *)
(* use: "$" followed by ".name" and "[*]" components.  Any other text is  *)
(* a syntax error, and so is a source that is no object.                  *)
(***************************************************************************)
Member(name) == [kind |-> "member", name |-> name]
Wildcard == [kind |-> "wild", name |-> ""]

IdentChars == "abcdefghijklmnopqrstuvwxyzABCDEFGHIJKLMNOPQRSTUVWXYZ_"

\* the longest identifier s starts with
IdentPrefix(s) ==
  LET isIdent(i) == IndexIn(Char(s, i), IdentChars) > 0
      m == CHOOSE m \in 0..Len(s) :
             /\ \A i \in 1..m : isIdent(i)
             /\ m = Len(s) \/ ~isIdent(m + 1)
  IN SubSeq(s, 1, m)

\* the components of the rest of a path, after "$"
RECURSIVE ParseComponents(_, _)
ParseComponents(s, acc) ==
  IF Len(s) = 0 THEN [ok |-> TRUE, comps |-> acc]
  ELSE IF StartsWith(s, "[*]") THEN
    Bind(SubSeq(s, 4, Len(s)), LAMBDA rest : ParseComponents(rest, Append(acc, Wildcard)))
  ELSE IF StartsWith(s, ".") THEN
    Bind(IdentPrefix(Tail(s)), LAMBDA name :
      IF Len(name) = 0 THEN [ok |-> FALSE, comps |-> <<>>]
      ELSE Bind(SubSeq(s, Len(name) + 2, Len(s)), LAMBDA rest :
             ParseComponents(rest, Append(acc, Member(name)))))
  ELSE [ok |-> FALSE, comps |-> <<>>]

ParsePath(path) ==
  IF StartsWith(path, "$") THEN Bind(Tail(path), LAMBDA rest : ParseComponents(rest, <<>>))
  ELSE [ok |-> FALSE, comps |-> <<>>]

\* the values one component selects below one value, in order
Select(h, v, comp) ==
  IF ~IsRef(v) THEN <<>>
  ELSE IF comp.kind = "member" THEN
    IF HasProp(h, v, comp.name) THEN <<GetProp(h, v, comp.name)>> ELSE <<>>
  ELSE IF IsArr(h, v) THEN h[v.id].items
  ELSE [i \in DOMAIN h[v.id].keys |-> h[v.id].f[h[v.id].keys[i]]]

\* what one component selects below the values vs[i], vs[i + 1], ...
RECURSIVE SelectFrom(_, _, _, _)
SelectFrom(h, vs, comp, i) ==
  IF i > Len(vs) THEN <<>>
  ELSE Select(h, vs[i], comp) \o SelectFrom(h, vs, comp, i + 1)

\* what the components comps[i], comps[i + 1], ... select below the values vs
RECURSIVE Descend(_, _, _, _)
Descend(h, vs, comps, i) ==
  IF i > Len(comps) THEN vs
  ELSE Bind(SelectFrom(h, vs, comps[i], 1), LAMBDA next : Descend(h, next, comps, i + 1))

\* a query that throws whatever it is given
QueryThrows(h, obj, path) == [ok |-> FALSE, vals |-> <<>>]

\* jp.query: ok is FALSE when the call throws
jpQuery(h, obj, path) ==
  Bind(ParsePath(path), LAMBDA p :
    IF ~IsRef(obj) \/ ~p.ok THEN [ok |-> FALSE, vals |-> <<>>]
    ELSE [ok |-> TRUE, vals |-> Descend(h, <<obj>>, p.comps, 1)])

(***************************************************************************)
(* The transforms of the built-in configs.  A transform gets the heap and *)
(* the list of matches; ok is FALSE when it throws.                       *)
(***************************************************************************)
\* String(v), unfolded to depth d
RECURSIVE ToStr(_, _, _)
RECURSIVE JoinFrom(_, _, _, _, _)

\* Array.prototype.join of vs[i], vs[i + 1], ...: null and undefined items give
\* the empty string
JoinFrom(h, vs, i, sep, d) ==
  IF i > Len(vs) THEN ""
  ELSE (IF vs[i].t \in {"null", "undef"} THEN "" ELSE ToStr(h, vs[i], d))
       \o (IF i = Len(vs) THEN "" ELSE sep \o JoinFrom(h, vs, i + 1, sep, d))

ToStr(h, v, d) ==
  IF v.t \in {"str", "bool"} THEN v.s
  ELSE IF v.t = "null" THEN "null"
  ELSE IF v.t = "undef" THEN "undefined"
  ELSE IF IsObj(h, v) THEN "[object Object]"
  ELSE IF d = 0 THEN ""
  ELSE JoinFrom(h, h[v.id].items, 1, ",", d - 1)

\* v.name for a value that is not null or undefined
Field(h, v, name) == IF IsRef(v) THEN GetProp(h, v, name) ELSE Undef

\* v[0] for a value that is not null or undefined
First(h, v) ==
  IF IsArr(h, v) THEN (IF Len(h[v.id].items) > 0 THEN h[v.id].items[1] ELSE Undef)
  ELSE IF IsRef(v) THEN GetProp(h, v, "0")
  ELSE IF v.t = "str" /\ Len(v.s) > 0 THEN Str(Char(v.s, 1))
  ELSE Undef

Nullish(v) == v.t \in {"null", "undef"}

\* (docs) => docs.join('\n\n')
JoinDocs(h, vals) == [ok |-> TRUE, h |-> h, v |-> Str(JoinFrom(h, vals, 1, "\n\n", ViewDepth))]

\* (host) => `https://${host}`
HostUrl(h, vals) ==
  [ok |-> TRUE, h |-> h, v |-> Str("https://" \o JoinFrom(h, vals, 1, ",", ViewDepth))]

\* the method of the operation of an item: item.method, or item[listField][0].method;
\* ok is FALSE when reading it throws
OperationMethod(h, item, listField) ==
  IF listField = "" THEN [ok |-> TRUE, v |-> Field(h, item, "method")]
  ELSE Bind(Field(h, item, listField), LAMBDA list :
         IF Nullish(list) THEN [ok |-> FALSE, v |-> Undef]
         ELSE Bind(First(h, list), LAMBDA op :
                IF Nullish(op) THEN [ok |-> FALSE, v |-> Undef]
                ELSE [ok |-> TRUE, v |-> Field(h, op, "method")]))

\* one step of the reduce of a paths transform:
\*   acc[item[keyField]] = { [method.toLowerCase()]: { summary, description, parameters } }
PathsStep(h, acc, item, keyField, listField, nameField, paramsField) ==
  IF Nullish(item) THEN [ok |-> FALSE, h |-> h]
  ELSE Bind(OperationMethod(h, item, listField), LAMBDA m :
    IF ~m.ok \/ m.v.t # "str" THEN [ok |-> FALSE, h |-> h]
    ELSE Bind(ToLowerCase(m.v.s), LAMBDA method :
      LET inner == NewId(h, 1)
          outer == NewId(h, 2)
          fields == [k \in {"summary", "description", "parameters"} |->
                       CASE k = "summary" -> Field(h, item, nameField)
                         [] k = "description" -> Field(h, item, "description")
                         [] k = "parameters" -> Field(h, item, paramsField)]
      IN Bind(h @@ (inner :> ObjCell(<<"summary", "description", "parameters">>, fields))
                @@ (outer :> ObjCell(<<method>>, [k \in {method} |-> Ref(inner)])),
              LAMBDA h1 :
                [ok |-> TRUE,
                 h |-> SetProp(h1, acc, ToStr(h, Field(h, item, keyField), ViewDepth),
                               Ref(outer))])))

\* the reduce from vals[i] on: ok is FALSE when a step throws
RECURSIVE PathsReduce(_, _, _, _, _, _, _, _)
PathsReduce(h, acc, vals, i, keyField, listField, nameField, paramsField) ==
  IF i > Len(vals) THEN [ok |-> TRUE, h |-> h, v |-> acc]
  ELSE Bind(PathsStep(h, acc, vals[i], keyField, listField, nameField, paramsField),
            LAMBDA r :
              IF ~r.ok THEN [ok |-> FALSE, h |-> h, v |-> Undef]
              ELSE PathsReduce(r.h, acc, vals, i + 1, keyField, listField, nameField,
                               paramsField))

\* (items) => items.reduce((acc, item) => { ...; return acc }, {})
PathsTransform(h, vals, keyField, listField, nameField, paramsField) ==
  Bind(Alloc(h, EmptyObj), LAMBDA a :
    Bind(PathsReduce(a.h, a.v, vals, 1, keyField, listField, nameField, paramsField),
         LAMBDA r : IF r.ok THEN r ELSE [ok |-> FALSE, h |-> h, v |-> Undef]))

RamlPaths(h, vals) ==
  PathsTransform(h, vals, "relativeUri", "methods", "displayName", "uriParameters")

BlueprintPaths(h, vals) ==
  PathsTransform(h, vals, "uriTemplate", "actions", "name", "parameters")

CustomPaths(h, vals) ==
  PathsTransform(h, vals, "path", "", "summary", "params")

\* rule.transform(value), for the transform a rule names
Transform(name, h, vals) ==
  CASE name = "joinDocs" -> JoinDocs(h, vals)
    [] name = "hostUrl" -> HostUrl(h, vals)
    [] name = "ramlPaths" -> RamlPaths(h, vals)
    [] name = "blueprintPaths" -> BlueprintPaths(h, vals)
    [] name = "customPaths" -> CustomPaths(h, vals)

(***************************************************************************)
(* mapMetadata.                                                            *)
(***************************************************************************)
Rule(source, target, transform) ==
  [source |-> source, target |-> target, transform |-> transform]

\* a result that starts as the empty object
BareResult(h) == Alloc(h, EmptyObj)

\* const result = { openapi: '3.0.3', info: {}, servers: [], paths: {} }
NewResult(h) ==
  LET r == NewId(h, 1)
      i == NewId(h, 2)
      s == NewId(h, 3)
      p == NewId(h, 4)
      keys == <<"openapi", "info", "servers", "paths">>
      f == [k \in {"openapi", "info", "servers", "paths"} |->
              CASE k = "openapi" -> Str("3.0.3")
                [] k = "info" -> Ref(i)
                [] k = "servers" -> Ref(s)
                [] k = "paths" -> Ref(p)]
  IN [h |-> h @@ (r :> ObjCell(keys, f)) @@ (i :> EmptyObj) @@ (s :> ArrCell(<<>>))
              @@ (p :> EmptyObj),
      v |-> Ref(r)]

\* a candidate value that is null, not undefined, when nothing matched
CandidateOrNull(h, rule, vals) ==
  IF rule.transform # "none" THEN Transform(rule.transform, h, vals)
  ELSE [ok |-> TRUE, h |-> h, v |-> IF vals = <<>> THEN Null ELSE vals[1]]

\* rule.transform ? rule.transform(value) : value[0]
Candidate(h, rule, vals) ==
  IF rule.transform # "none" THEN Transform(rule.transform, h, vals)
  ELSE [ok |-> TRUE, h |-> h, v |-> IF vals = <<>> THEN Undef ELSE vals[1]]

\* the members every object inherits from Object.prototype that the model
\* knows: `name in object` holds for them although the object has no such key
InheritedMembers == {"constructor", "toString", "valueOf", "hasOwnProperty"}

\* a built-in function, reached through an inherited member; s is its name
Fn(name) == [t |-> "fn", s |-> IF name = "constructor" THEN "Object" ELSE name, id |-> ""]

\* the length of a built-in function (a number, kept as its decimal text)
FnLength(fn) == Str(IF fn.s \in {"Object", "hasOwnProperty"} THEN "1" ELSE "0")

\* the loop over targetPath[0 .. length - 2], from parts[i] on: the heap and the
\* object reached; ok is FALSE when `part in current` throws (current is a
\* primitive).  A key that a built-in function lacks is created on the
\* function, outside the heap of the documents.
RECURSIVE WalkTarget(_, _, _, _)
WalkTarget(h, current, parts, i) ==
  IF i >= Len(parts) THEN [ok |-> TRUE, h |-> h, v |-> current]
  ELSE IF current.t = "fn" THEN
    Bind(IF parts[i] = "name" THEN Str(current.s)
         ELSE IF parts[i] = "length" THEN FnLength(current)
         ELSE IF parts[i] \in InheritedMembers THEN Fn(parts[i])
         ELSE Fn(""), LAMBDA next : WalkTarget(h, next, parts, i + 1))
  ELSE IF ~IsRef(current) THEN [ok |-> FALSE, h |-> h, v |-> current]
  ELSE IF HasProp(h, current, parts[i])
    THEN Bind(GetProp(h, current, parts[i]), LAMBDA next : WalkTarget(h, next, parts, i + 1))
  ELSE IF parts[i] \in InheritedMembers
    THEN Bind(Fn(parts[i]), LAMBDA next : WalkTarget(h, next, parts, i + 1))
  ELSE Bind(Alloc(h, EmptyObj), LAMBDA a :
         Bind(SetProp(a.h, current, parts[i], a.v), LAMBDA h1 :
           WalkTarget(h1, a.v, parts, i + 1)))

\* an assignment that keeps the value a key already has
AssignIfAbsent(h, current, key, val) ==
  IF IsRef(current)
  THEN [ok |-> TRUE, h |-> IF HasProp(h, current, key) THEN h ELSE SetProp(h, current, key, val)]
  ELSE [ok |-> FALSE, h |-> h]

\* current[targetPath[targetPath.length - 1]] = transformedValue, in a module
\* (strict code): assigning to a property of a primitive throws, and so does
\* assigning to the read-only name or length of a function
AssignTarget(h, current, key, val) ==
  IF IsRef(current) THEN [ok |-> TRUE, h |-> SetProp(h, current, key, val)]
  ELSE IF current.t = "fn" THEN [ok |-> key \notin {"name", "length"}, h |-> h]
  ELSE [ok |-> FALSE, h |-> h]

\* the body of `if (transformedValue !== undefined)`
SetTarget(h, result, target, val) ==
  Bind(Split(target, "."), LAMBDA parts :
    Bind(WalkTarget(h, result, parts, 1), LAMBDA w :
      IF w.ok THEN AssignTarget(w.h, w.v, parts[Len(parts)], val)
      ELSE [ok |-> FALSE, h |-> w.h]))

\* the body of the try block for one rule: the heap after it, and whether it
\* threw (and was caught)
ApplyRule(h, source, result, rule) ==
  Bind(jpQuery(h, source, rule.source), LAMBDA q :
    IF ~q.ok THEN [h |-> h, raised |-> TRUE]
    ELSE Bind(Candidate(h, rule, q.vals), LAMBDA c :
      IF ~c.ok THEN [h |-> h, raised |-> TRUE]
      ELSE IF c.v.t = "undef" THEN [h |-> h, raised |-> FALSE]
      ELSE Bind(SetTarget(c.h, result, rule.target, c.v), LAMBDA a :
             [h |-> a.h, raised |-> ~a.ok])))

(***************************************************************************)
(* validateMapping.                                                        *)
(***************************************************************************)
requiredFields == <<"info.title", "info.version">>

\* a try block whose catch adds nothing
CheckRuleSilent(h, source, field, rule) ==
  Bind(jpQuery(h, source, rule.source), LAMBDA q :
    IF q.ok /\ q.vals = <<>> THEN
      <<"Required field " \o field \o " not found in source data (" \o rule.source \o ")">>
    ELSE <<>>)

\* the try block of the inner loop: the errors one rule adds
CheckRule(h, source, field, rule) ==
  Bind(jpQuery(h, source, rule.source), LAMBDA q :
    IF ~q.ok THEN <<"Invalid JSONPath expression: " \o rule.source>>
    ELSE IF q.vals = <<>> THEN
      <<"Required field " \o field \o " not found in source data (" \o rule.source \o ")">>
    ELSE <<>>)

\* an inner loop that stops after one rule
CheckFirstOnly(h, source, field, rs, i) ==
  IF i > Len(rs) THEN <<>> ELSE CheckRule(h, source, field, rs[i])

\* the inner loop, from rs[i] on
RECURSIVE CheckRules(_, _, _, _, _)
CheckRules(h, source, field, rs, i) ==
  IF i > Len(rs) THEN <<>>
  ELSE CheckRule(h, source, field, rs[i]) \o CheckRules(h, source, field, rs, i + 1)

\* an outer loop whose body reports nothing
CheckNoField(h, source, rules, field) == <<>>

\* the body of the outer loop: the errors one required field adds
CheckField(h, source, rules, field) ==
  Bind(SelectSeq(rules, LAMBDA r : r.target = field), LAMBDA rs :
    IF rs = <<>> THEN <<"Missing mapping rule for required field: " \o field>>
    ELSE CheckRules(h, source, field, rs, 1))

validateMapping(h, source, rules) ==
  CheckField(h, source, rules, requiredFields[1])
    \o CheckField(h, source, rules, requiredFields[2])

(***************************************************************************)
(* The built-in configs: their rules and their bundled examples.          *)
(***************************************************************************)
P(k, v) == <<k, v>>

RamlRules ==
  << Rule("$.title", "info.title", "none"),
     Rule("$.version", "info.version", "none"),
     Rule("$.baseUri", "servers[0].url", "none"),
     Rule("$.documentation[*].content", "info.description", "joinDocs"),
     Rule("$.resources[*]", "paths", "ramlPaths") >>

BlueprintRules ==
  << Rule("$.metadata.title", "info.title", "none"),
     Rule("$.metadata.version", "info.version", "none"),
     Rule("$.metadata.description", "info.description", "none"),
     Rule("$.metadata.host", "servers[0].url", "hostUrl"),
     Rule("$.resourceGroups[*].resources[*]", "paths", "blueprintPaths") >>

CustomJsonRules ==
  << Rule("$.api.name", "info.title", "none"),
     Rule("$.api.version", "info.version", "none"),
     Rule("$.api.description", "info.description", "none"),
     Rule("$.api.endpoints[*]", "paths", "customPaths") >>

BuiltinNames == {"raml", "apiBlueprint", "customJson"}

mappingConfigs(name) ==
  CASE name = "raml" -> RamlRules
    [] name = "apiBlueprint" -> BlueprintRules
    [] name = "customJson" -> CustomJsonRules

Method(m) == TObj(<<P("method", TStr(m))>>)

RamlExampleSource ==
  TObj(<< P("title", TStr("Example API")),
          P("version", TStr("v1")),
          P("baseUri", TStr("https://api.example.com")),
          P("documentation", TArr(<<TObj(<<P("content", TStr("API Documentation"))>>)>>)),
          P("resources", TArr(<<
            TObj(<< P("relativeUri", TStr("/users")),
                    P("methods", TArr(<<Method("GET")>>)),
                    P("displayName", TStr("Get Users")),
                    P("description", TStr("List all users")) >>) >>)) >>)

RamlExampleExpected ==
  TObj(<< P("openapi", TStr("3.0.3")),
          P("info", TObj(<< P("title", TStr("Example API")),
                            P("version", TStr("v1")),
                            P("description", TStr("API Documentation")) >>)),
          P("servers", TArr(<<TObj(<<P("url", TStr("https://api.example.com"))>>)>>)),
          P("paths", TObj(<<
            P("/users", TObj(<<
              P("get", TObj(<< P("summary", TStr("Get Users")),
                               P("description", TStr("List all users")) >>)) >>)) >>)) >>)

BlueprintExampleSource ==
  TObj(<< P("metadata", TObj(<< P("title", TStr("Example API")),
                                P("version", TStr("1.0")),
                                P("description", TStr("API Description")),
                                P("host", TStr("api.example.com")) >>)),
          P("resourceGroups", TArr(<<
            TObj(<< P("resources", TArr(<<
              TObj(<< P("uriTemplate", TStr("/users")),
                      P("name", TStr("Users")),
                      P("description", TStr("User operations")),
                      P("actions", TArr(<<Method("GET")>>)) >>) >>)) >>) >>)) >>)

BlueprintExampleExpected ==
  TObj(<< P("openapi", TStr("3.0.3")),
          P("info", TObj(<< P("title", TStr("Example API")),
                            P("version", TStr("1.0")),
                            P("description", TStr("API Description")) >>)),
          P("servers", TArr(<<TObj(<<P("url", TStr("https://api.example.com"))>>)>>)),
          P("paths", TObj(<<
            P("/users", TObj(<<
              P("get", TObj(<< P("summary", TStr("Users")),
                               P("description", TStr("User operations")) >>)) >>)) >>)) >>)

CustomJsonExampleSource ==
  TObj(<< P("api", TObj(<< P("name", TStr("Custom API")),
                           P("version", TStr("1.0.0")),
                           P("description", TStr("Custom API Description")),
                           P("endpoints", TArr(<<
                             TObj(<< P("path", TStr("/data")),
                                     P("method", TStr("GET")),
                                     P("summary", TStr("Get Data")),
                                     P("description", TStr("Retrieve data")) >>) >>)) >>)) >>)

CustomJsonExampleExpected ==
  TObj(<< P("openapi", TStr("3.0.3")),
          P("info", TObj(<< P("title", TStr("Custom API")),
                            P("version", TStr("1.0.0")),
                            P("description", TStr("Custom API Description")) >>)),
          P("paths", TObj(<<
            P("/data", TObj(<<
              P("get", TObj(<< P("summary", TStr("Get Data")),
                               P("description", TStr("Retrieve data")) >>)) >>)) >>)) >>)

\* mappingConfigs[name].examples, as <<source, expected>> pairs
examples(name) ==
  CASE name = "raml" -> << <<RamlExampleSource, RamlExampleExpected>> >>
    [] name = "apiBlueprint" -> << <<BlueprintExampleSource, BlueprintExampleExpected>> >>
    [] name = "customJson" -> << <<CustomJsonExampleSource, CustomJsonExampleExpected>> >>

(***************************************************************************)
(* The parsers (metadataParser.ts).  The text parsers of the libraries     *)
(* (JSON.parse, yaml.load, SwaggerParser.parse, RAMLParser.load) are not   *)
(* part of the code: an input carries, next to its text, what each of     *)
(* them gives for that text (a document, or Absent when it throws).       *)
(***************************************************************************)
\* JavaScript truthiness of a value
Truthy(v) ==
  IF v.t = "str" THEN v.s # "" ELSE IF v.t = "bool" THEN v.s = "true" ELSE v.t = "ref"

\* the left operand alone
LeftOperand(a, b) == a

\* a || b
OrElse(a, b) == IF Truthy(a) THEN a ELSE b

\* v?.name
OptField(h, v, name) == IF Nullish(v) THEN Undef ELSE Field(h, v, name)

\* the entries of an object from its last key to its first
EntriesBackwards(h, v) ==
  IF Nullish(v) \/ ~IsObj(h, v) THEN [ok |-> ~Nullish(v), kv |-> <<>>]
  ELSE [ok |-> TRUE,
        kv |-> [i \in DOMAIN h[v.id].keys |->
                  <<h[v.id].keys[Len(h[v.id].keys) + 1 - i],
                    h[v.id].f[h[v.id].keys[Len(h[v.id].keys) + 1 - i]]>>]]

\* Object.entries(v): the <<key, value>> pairs of an object in key order, of an
\* array or a string by index; ok is FALSE when it throws (null, undefined)
Entries(h, v) ==
  IF Nullish(v) THEN [ok |-> FALSE, kv |-> <<>>]
  ELSE IF v.t = "str" THEN
    [ok |-> TRUE, kv |-> [i \in 1..Len(v.s) |-> <<ToString(i - 1), Str(Char(v.s, i))>>]]
  ELSE IF IsArr(h, v) THEN
    [ok |-> TRUE,
     kv |-> [i \in DOMAIN h[v.id].items |-> <<ToString(i - 1), h[v.id].items[i]>>]]
  ELSE [ok |-> TRUE,
        kv |-> [i \in DOMAIN h[v.id].keys |-> <<h[v.id].keys[i], h[v.id].f[h[v.id].keys[i]]>>]]

\* a list the parsers build (the result of filter), as a value of its own
List(items) == [t |-> "list", s |-> "", id |-> "", items |-> items]

\* operation.parameters?.filter(p => p.in === where); ok is FALSE when it throws
\* (parameters is neither nullish nor an array, or an item is nullish)
ParametersIn(h, operation, where) ==
  Bind(Field(h, operation, "parameters"), LAMBDA ps :
    IF Nullish(ps) THEN [ok |-> TRUE, v |-> Undef]
    ELSE IF ~IsArr(h, ps) THEN [ok |-> FALSE, v |-> Undef]
    ELSE IF \E i \in DOMAIN h[ps.id].items : Nullish(h[ps.id].items[i])
      THEN [ok |-> FALSE, v |-> Undef]
    ELSE [ok |-> TRUE,
          v |-> List(SelectSeq(h[ps.id].items, LAMBDA q : Field(h, q, "in") = Str(where)))])

Auth(type, required, location) == [type |-> type, required |-> required, location |-> location]

NoAuth == Auth(Str("none"), FALSE, Undef)

\* detectAuthenticationFromOperation
detectAuthenticationFromOperation(h, operation) ==
  Bind(OrElse(Field(h, operation, "security"), Field(h, operation, "securedBy")),
       LAMBDA security :
         IF Truthy(security)
         THEN Auth(IF IsArr(h, security) THEN Str("multiple")
                   ELSE OrElse(Field(h, security, "type"), Str("apiKey")),
                   TRUE, Str("header"))
         ELSE NoAuth)

\* Object.values(v)[0], for a value that is not nullish
FirstValue(h, v) ==
  Bind(Entries(h, v), LAMBDA e : IF e.kv = <<>> THEN Undef ELSE e.kv[1][2])

\* Boolean(v?.length)
HasLength(h, v) ==
  IF v.t = "str" THEN v.s # ""
  ELSE IF IsArr(h, v) THEN h[v.id].items # <<>>
  ELSE IF IsObj(h, v) THEN Truthy(Field(h, v, "length"))
  ELSE FALSE

\* detectAuthentication; ok is FALSE when it throws
detectAuthentication(h, api) ==
  Bind(OrElse(OptField(h, Field(h, api, "components"), "securitySchemes"),
              Field(h, api, "securityDefinitions")),
       LAMBDA schemes :
    Bind(IF Truthy(schemes) THEN FirstValue(h, schemes) ELSE Undef, LAMBDA first :
      IF Truthy(first) THEN
        [ok |-> TRUE,
         v |-> Auth(Field(h, first, "type"), HasLength(h, Field(h, api, "security")),
                    OrElse(Field(h, first, "in"), Str("header")))]
      ELSE IF Truthy(Field(h, api, "securitySchemes")) THEN
        Bind(FirstValue(h, Field(h, api, "securitySchemes")), LAMBDA scheme :
          IF Nullish(scheme) THEN [ok |-> FALSE, v |-> NoAuth]
          ELSE [ok |-> TRUE,
                v |-> Auth(Field(h, scheme, "type"), TRUE,
                           IF Truthy(OptField(h, Field(h, scheme, "describedBy"), "headers"))
                           THEN Str("header") ELSE Str("query"))])
      ELSE Bind(OrElse(Field(h, api, "auth"), Field(h, api, "authentication")), LAMBDA auth :
             IF Truthy(auth) THEN
               [ok |-> TRUE,
                v |-> Auth(OrElse(Field(h, auth, "type"), Str("apiKey")),
                           Field(h, auth, "required") # Bool(FALSE),
                           OrElse(Field(h, auth, "location"), Str("header")))]
             ELSE [ok |-> TRUE, v |-> NoAuth])))

\* one ParsedEndpoint; authentication is <<>> when the endpoint has no such key
Endpoint(path, method, summary, description, query, pathParams, header, body, responses, auth) ==
  [path |-> path, method |-> method, summary |-> summary, description |-> description,
   parameters |-> [query |-> query, path |-> pathParams, header |-> header, body |-> body],
   responses |-> responses, authentication |-> auth]

\* the endpoint of one [method, operation] entry of a path item; ok is FALSE
\* when building it throws
OperationEndpoint(h, path, method, operation, withAuth) ==
  IF Nullish(operation) THEN [ok |-> FALSE, eps |-> <<>>]
  ELSE Bind(<<ParametersIn(h, operation, "query"), ParametersIn(h, operation, "path"),
              ParametersIn(h, operation, "header")>>, LAMBDA ps :
         IF ~(ps[1].ok /\ ps[2].ok /\ ps[3].ok) THEN [ok |-> FALSE, eps |-> <<>>]
         ELSE [ok |-> TRUE,
               eps |-> << Endpoint(Str(path), Str(ToUpperCase(method)),
                                   Field(h, operation, "summary"),
                                   Field(h, operation, "description"),
                                   ps[1].v, ps[2].v, ps[3].v,
                                   Field(h, operation, "requestBody"),
                                   Field(h, operation, "responses"),
                                   IF withAuth
                                   THEN <<detectAuthenticationFromOperation(h, operation)>>
                                   ELSE <<>>) >>])

\* a skip of the key $ref alone
SkippedRefOnly(method) == method = "$ref"

\* if (method === 'parameters' || method === '$ref') continue
Skipped(method) == method \in {"parameters", "$ref"}

\* the inner loop, over the entries ops[i], ops[i + 1], ... of one path item
RECURSIVE PathItemEndpoints(_, _, _, _, _)
PathItemEndpoints(h, path, ops, i, withAuth) ==
  IF i > Len(ops) THEN [ok |-> TRUE, eps |-> <<>>]
  ELSE Bind(IF Skipped(ops[i][1]) THEN [ok |-> TRUE, eps |-> <<>>]
            ELSE OperationEndpoint(h, path, ops[i][1], ops[i][2], withAuth), LAMBDA e :
         IF ~e.ok THEN e
         ELSE Bind(PathItemEndpoints(h, path, ops, i + 1, withAuth), LAMBDA rest :
                IF rest.ok THEN [ok |-> TRUE, eps |-> e.eps \o rest.eps] ELSE rest))

\* the outer loop, over the entries paths[i], paths[i + 1], ... of the paths object
RECURSIVE PathsEndpoints(_, _, _, _)
PathsEndpoints(h, paths, i, withAuth) ==
  IF i > Len(paths) THEN [ok |-> TRUE, eps |-> <<>>]
  ELSE Bind(Entries(h, paths[i][2]), LAMBDA ops :
         IF ~ops.ok THEN [ok |-> FALSE, eps |-> <<>>]
         ELSE Bind(PathItemEndpoints(h, paths[i][1], ops.kv, 1, withAuth), LAMBDA e :
                IF ~e.ok THEN e
                ELSE Bind(PathsEndpoints(h, paths, i + 1, withAuth), LAMBDA rest :
                       IF rest.ok THEN [ok |-> TRUE, eps |-> e.eps \o rest.eps] ELSE rest)))

\* one ParsedMetadata, returned; Thrown is what a parser gives when it throws
Metadata(title, version, baseUrl, description, endpoints, authentication) ==
  [ok |-> TRUE, title |-> title, version |-> version, baseUrl |-> baseUrl,
   description |-> description, endpoints |-> endpoints, authentication |-> authentication,
   error |-> ""]

Thrown(error) ==
  [ok |-> FALSE, title |-> Undef, version |-> Undef, baseUrl |-> Undef,
   description |-> Undef, endpoints |-> <<>>, authentication |-> NoAuth, error |-> error]

\* v?.[0]
OptFirst(h, v) == IF Nullish(v) THEN Undef ELSE First(h, v)

\* parseOpenAPI
parseOpenAPI(h, api) ==
  IF Nullish(api) THEN Thrown("TypeError")
  ELSE Bind(<<IF Truthy(Field(h, api, "paths"))
              THEN PathsEndpoints(h, Entries(h, Field(h, api, "paths")).kv, 1, TRUE)
              ELSE [ok |-> TRUE, eps |-> <<>>],
              detectAuthentication(h, api),
              Field(h, api, "info")>>, LAMBDA r :
         IF ~r[1].ok \/ ~r[2].ok THEN Thrown("TypeError")
         ELSE Metadata(OrElse(OptField(h, r[3], "title"), Str("API")),
                       OrElse(OptField(h, r[3], "version"), Str("1.0.0")),
                       OrElse(OrElse(OptField(h, OptFirst(h, Field(h, api, "servers")), "url"),
                                     Field(h, api, "basePath")), Str("")),
                       OptField(h, r[3], "description"),
                       r[1].eps, r[2].v))

\* for (const x of v): the items of an array, the characters of a string; ok is
\* FALSE when v is not iterable
Iterate(h, v) ==
  IF IsArr(h, v) THEN [ok |-> TRUE, items |-> h[v.id].items]
  ELSE IF v.t = "str" THEN [ok |-> TRUE, items |-> [i \in 1..Len(v.s) |-> Str(Char(v.s, i))]]
  ELSE [ok |-> FALSE, items |-> <<>>]

\* the endpoint of one item of a flat endpoint list
ListedEndpoint(h, endpoint) ==
  Endpoint(OrElse(OrElse(Field(h, endpoint, "path"), Field(h, endpoint, "url")), Str("")),
           OrElse(Field(h, endpoint, "method"), Str("GET")),
           OrElse(Field(h, endpoint, "summary"), Field(h, endpoint, "name")),
           Field(h, endpoint, "description"),
           Field(h, endpoint, "queryParameters"), Field(h, endpoint, "pathParameters"),
           Field(h, endpoint, "headers"), Field(h, endpoint, "body"),
           Field(h, endpoint, "responses"), <<>>)

\* extractEndpointsFromJSON; ok is FALSE when it throws
extractEndpointsFromJSON(h, data) ==
  IF Truthy(Field(h, data, "paths"))
    THEN PathsEndpoints(h, Entries(h, Field(h, data, "paths")).kv, 1, FALSE)
  ELSE Bind(OrElse(Field(h, data, "endpoints"), Field(h, data, "resources")), LAMBDA list :
         IF ~Truthy(list) THEN [ok |-> TRUE, eps |-> <<>>]
         ELSE Bind(Iterate(h, list), LAMBDA it :
                IF ~it.ok \/ \E i \in DOMAIN it.items : Nullish(it.items[i])
                THEN [ok |-> FALSE, eps |-> <<>>]
                ELSE [ok |-> TRUE,
                      eps |-> [i \in DOMAIN it.items |-> ListedEndpoint(h, it.items[i])]]))

\* parseJSON
parseJSON(h, data) ==
  IF Nullish(data) THEN Thrown("TypeError")
  ELSE IF Truthy(OrElse(Field(h, data, "swagger"), Field(h, data, "openapi")))
    THEN parseOpenAPI(h, data)
  ELSE Bind(<<extractEndpointsFromJSON(h, data), detectAuthentication(h, data)>>, LAMBDA r :
         IF ~r[1].ok \/ ~r[2].ok THEN Thrown("TypeError")
         ELSE Metadata(OrElse(OrElse(Field(h, data, "title"), Field(h, data, "name")),
                              Str("API")),
                       OrElse(Field(h, data, "version"), Str("1.0.0")),
                       OrElse(OrElse(Field(h, data, "baseUrl"), Field(h, data, "basePath")),
                              Str("")),
                       Field(h, data, "description"),
                       r[1].eps, r[2].v))

\* parseYAML
parseYAML(h, data) ==
  IF Nullish(data) THEN Thrown("TypeError")
  ELSE IF Truthy(OrElse(Field(h, data, "swagger"), Field(h, data, "openapi")))
    THEN parseOpenAPI(h, data)
  ELSE parseJSON(h, data)

\* the endpoint of one method of a RAML resource; ok is FALSE when building it
\* throws (the method is nullish, or its `method` is no string)
MethodEndpoint(h, path, resource, method) ==
  IF Nullish(method) \/ Field(h, method, "method").t # "str" THEN [ok |-> FALSE, eps |-> <<>>]
  ELSE [ok |-> TRUE,
        eps |-> << Endpoint(Str(path), Str(ToUpperCase(Field(h, method, "method").s)),
                            Field(h, method, "displayName"), Field(h, method, "description"),
                            Field(h, method, "queryParameters"),
                            Field(h, resource, "uriParameters"),
                            Field(h, method, "headers"), Field(h, method, "body"),
                            Field(h, method, "responses"),
                            <<detectAuthenticationFromOperation(h, method)>>) >>]

\* the loop over resource.methods, from ms[i] on
RECURSIVE MethodEndpoints(_, _, _, _, _)
MethodEndpoints(h, path, resource, ms, i) ==
  IF i > Len(ms) THEN [ok |-> TRUE, eps |-> <<>>]
  ELSE Bind(MethodEndpoint(h, path, resource, ms[i]), LAMBDA e :
         IF ~e.ok THEN e
         ELSE Bind(MethodEndpoints(h, path, resource, ms, i + 1), LAMBDA rest :
                IF rest.ok THEN [ok |-> TRUE, eps |-> e.eps \o rest.eps] ELSE rest))

\* a walk that does not go below a resource
NoChildEndpoints(h, path, rs, i) == [ok |-> TRUE, eps |-> <<>>]

\* processResource: the endpoints it pushes, in the order it pushes them
RECURSIVE processResource(_, _, _)
RECURSIVE ChildEndpoints(_, _, _, _)

\* the loop over resource.resources, from rs[i] on
ChildEndpoints(h, path, rs, i) ==
  IF i > Len(rs) THEN [ok |-> TRUE, eps |-> <<>>]
  ELSE Bind(processResource(h, rs[i], path), LAMBDA e :
         IF ~e.ok THEN e
         ELSE Bind(ChildEndpoints(h, path, rs, i + 1), LAMBDA rest :
                IF rest.ok THEN [ok |-> TRUE, eps |-> e.eps \o rest.eps] ELSE rest))

processResource(h, resource, parentPath) ==
  IF Nullish(resource) THEN [ok |-> FALSE, eps |-> <<>>]
  ELSE Bind(parentPath \o (IF Truthy(Field(h, resource, "relativeUri"))
                           THEN ToStr(h, Field(h, resource, "relativeUri"), ViewDepth)
                           ELSE ""), LAMBDA path :
    Bind(<<Field(h, resource, "methods"), Field(h, resource, "resources")>>, LAMBDA f :
      Bind(IF ~Truthy(f[1]) THEN [ok |-> TRUE, eps |-> <<>>]
           ELSE IF ~Iterate(h, f[1]).ok THEN [ok |-> FALSE, eps |-> <<>>]
           ELSE MethodEndpoints(h, path, resource, Iterate(h, f[1]).items, 1), LAMBDA own :
        IF ~own.ok THEN own
        ELSE IF ~Truthy(f[2]) THEN own
        ELSE IF ~Iterate(h, f[2]).ok THEN [ok |-> FALSE, eps |-> <<>>]
        ELSE Bind(ChildEndpoints(h, path, Iterate(h, f[2]).items, 1), LAMBDA below :
               IF below.ok THEN [ok |-> TRUE, eps |-> own.eps \o below.eps] ELSE below))))

\* parseRAML
parseRAML(h, api) ==
  Bind(<<processResource(h, api, ""), detectAuthentication(h, api)>>, LAMBDA r :
    IF ~r[1].ok \/ ~r[2].ok THEN Thrown("TypeError")
    ELSE Metadata(OrElse(Field(h, api, "title"), Str("API")),
                  OrElse(Field(h, api, "version"), Str("1.0.0")),
                  OrElse(Field(h, api, "baseUri"), Str("")),
                  Field(h, api, "description"),
                  r[1].eps, r[2].v))

\* An input: its text, and what the text parsers of the libraries give for it.
\* json is JSON.parse of the text (and of the trimmed text, which JSON.parse
\* reads the same); yaml is yaml.load of the text and yamlTrimmed of the trimmed
\* text; swagger is what SwaggerParser.parse resolves to and raml what
\* RAMLParser.load resolves to.  Each is <<>> when the parser throws, <<d>> when
\* it returns the document d.
Input(text, json, yaml, yamlTrimmed, swagger, raml) ==
  [text |-> text, json |-> json, yaml |-> yaml, yamlTrimmed |-> yamlTrimmed,
   swagger |-> swagger, raml |-> raml]

DetectionError == "Unable to detect metadata format"

\* a detector that looks for the quoted OpenAPI keys before the RAML signature
DetectKeysFirst(input) ==
  IF Includes(input.text, "\"swagger\":") \/ Includes(input.text, "\"openapi\":")
  THEN "openapi"
  ELSE IF StartsWith(Trim(input.text), "#%RAML") THEN "raml"
  ELSE DetectionError

\* a detector that tries YAML before JSON
DetectYamlFirst(input) ==
  IF input.yamlTrimmed # <<>> THEN "yaml"
  ELSE IF input.json # <<>> THEN "json"
  ELSE DetectionError

\* a detector without the step that looks for the quoted OpenAPI keys
DetectNoKeys(input) ==
  IF input.json # <<>> THEN "json"
  ELSE IF StartsWith(Trim(input.text), "#%RAML") THEN "raml"
  ELSE DetectionError

\* detectFormat: the tag, or DetectionError when it throws
detectFormat(input) ==
  Bind(Trim(input.text), LAMBDA trimmed :
    IF (StartsWith(trimmed, "{") \/ StartsWith(trimmed, "[")) /\ input.json # <<>>
      THEN "json"
    ELSE IF (StartsWith(trimmed, "---") \/ StartsWith(trimmed, "swagger:")
               \/ StartsWith(trimmed, "openapi:")) /\ input.yamlTrimmed # <<>>
      THEN "yaml"
    ELSE IF StartsWith(trimmed, "#%RAML") THEN "raml"
    ELSE IF Includes(trimmed, "\"swagger\":") \/ Includes(trimmed, "\"openapi\":")
      THEN "openapi"
    ELSE DetectionError)

\* what one of the text parsers gave, placed in the heap: the heap with it and
\* its value; ok is FALSE when the parser threw
Parsed(h, got) ==
  IF got = <<>> THEN [ok |-> FALSE, h |-> h, v |-> Undef]
  ELSE Bind(Load(got[1]), LAMBDA l : [ok |-> TRUE, h |-> l.h, v |-> l.v])

\* a switch that answers every format with an empty ParsedMetadata
ParseOrDefault(h, input, format) ==
  [h |-> h, v |-> Metadata(Str("API"), Str("1.0.0"), Str(""), Undef, <<>>, NoAuth)]

\* the switch of parseMetadata on format.toLowerCase(): the heap after it, and
\* the ParsedMetadata it resolves to (Thrown when it rejects)
ParseAs(h, input, format) ==
  Bind(ToLowerCase(format), LAMBDA tag :
    Bind(CASE tag = "json" -> Parsed(h, input.json)
           [] tag \in {"yaml", "yml"} -> Parsed(h, input.yaml)
           [] tag \in {"openapi", "swagger"} -> Parsed(h, input.swagger)
           [] tag = "raml" -> Parsed(h, input.raml)
           [] OTHER -> [ok |-> FALSE, h |-> h, v |-> Undef], LAMBDA d :
      [h |-> d.h,
       v |-> CASE tag \notin {"json", "yaml", "yml", "openapi", "swagger", "raml"}
                    -> Thrown("Unsupported format: " \o format)
               [] ~d.ok -> Thrown("SyntaxError")
               [] tag = "json" -> parseJSON(d.h, d.v)
               [] tag \in {"yaml", "yml"} -> parseYAML(d.h, d.v)
               [] tag \in {"openapi", "swagger"} -> parseOpenAPI(d.h, d.v)
               [] tag = "raml" -> parseRAML(d.h, d.v)]))

\* parseMetadata(input, format); format is "" when the argument is left out
parseMetadata(h, input, format) ==
  IF format # "" THEN ParseAs(h, input, format)
  ELSE Bind(detectFormat(input), LAMBDA tag :
         IF tag = DetectionError THEN [h |-> h, v |-> Thrown(DetectionError)]
         ELSE ParseAs(h, input, tag))

(***************************************************************************)
(* The collection generator: generateInsomniaCollection on a              *)
(* ParsedMetadata.  Date.now() is read once for the workspace, once for   *)
(* each folder and once for each request; clock is what these readings    *)
(* give, in order, followed by the reading of the export date.            *)
(***************************************************************************)
\* endpoint.path.split('/').filter(Boolean)[0] || 'root'
GroupName(endpoint) ==
  Bind(SelectSeq(Split(endpoint.path.s, "/"), LAMBDA x : x # ""), LAMBDA segments :
    IF segments = <<>> THEN "root" ELSE segments[1])

\* groupEndpoints: the groups in the order they are created, each with its name
\* and its endpoints; ok is FALSE when it throws (a path that is no string)
groupEndpoints(endpoints) ==
  IF \E i \in DOMAIN endpoints : endpoints[i].path.t # "str" THEN [ok |-> FALSE, groups |-> <<>>]
  ELSE Bind([i \in DOMAIN endpoints |-> GroupName(endpoints[i])], LAMBDA names :
    Bind(SelectSeq([i \in DOMAIN names |-> i],
                   LAMBDA i : \A j \in 1..(i - 1) : names[j] # names[i]), LAMBDA firsts :
      [ok |-> TRUE,
       groups |-> [k \in DOMAIN firsts |->
                     [name |-> names[firsts[k]],
                      endpoints |-> Bind(SelectSeq([i \in DOMAIN names |-> i],
                                                   LAMBDA i : names[i] = names[firsts[k]]),
                                         LAMBDA members :
                                           [j \in DOMAIN members |-> endpoints[members[j]]])]]]))

\* the parameters or headers of a request: list.map(...) when the list is there;
\* ok is FALSE when it throws (no list, or an item that is null or undefined)
RequestParameters(h, list) ==
  Bind(IF list.t = "list" THEN <<list.items>>
       ELSE IF IsArr(h, list) THEN <<h[list.id].items>> ELSE <<>>, LAMBDA got :
    IF list.t # "list" /\ ~Truthy(list) THEN [ok |-> TRUE, v |-> <<>>]
    ELSE IF got = <<>> THEN [ok |-> FALSE, v |-> <<>>]
    ELSE IF \E i \in DOMAIN got[1] : Nullish(got[1][i]) THEN [ok |-> FALSE, v |-> <<>>]
    ELSE [ok |-> TRUE,
          v |-> [i \in DOMAIN got[1] |->
                   [name |-> Field(h, got[1][i], "name"),
                    value |-> OrElse(Field(h, got[1][i], "default"), Str("")),
                    description |-> OrElse(Field(h, got[1][i], "description"), Str("")),
                    disabled |-> ~Truthy(Field(h, got[1][i], "required"))]]])

\* a choice that takes the document's descriptor when the endpoint's is 'none'
AuthUnlessNone(endpoint, metadata) ==
  IF endpoint.authentication # <<>> /\ endpoint.authentication[1].type # Str("none")
  THEN endpoint.authentication[1] ELSE metadata.authentication

\* endpoint.authentication || metadata.authentication
AppliedAuth(endpoint, metadata) ==
  IF endpoint.authentication # <<>> THEN endpoint.authentication[1]
  ELSE metadata.authentication

\* the authentication of a request that has none
NoRequestAuth == [type |-> "", disabled |-> FALSE, prefix |-> "", token |-> ""]

\* the authentication createRequest sets for a descriptor; prefix is "" when
\* it is undefined
RequestAuth(auth) ==
  IF auth.type = Str("none") THEN NoRequestAuth
  ELSE [type |-> ToLowerCase(auth.type.s), disabled |-> FALSE,
        prefix |-> IF auth.type = Str("bearer") THEN "Bearer" ELSE "",
        token |-> "{{ auth_token }}"]

\* createRequest; ok is FALSE when it throws.  The text of the body is
\* JSON.stringify of the value kept here.
createRequest(h, id, parentId, endpoint, metadata) ==
  Bind(<<RequestParameters(h, endpoint.parameters.query),
         RequestParameters(h, endpoint.parameters.header),
         AppliedAuth(endpoint, metadata)>>, LAMBDA r :
    IF ~r[1].ok \/ ~r[2].ok \/ r[3].type.t # "str" THEN [ok |-> FALSE, v |-> <<>>]
    ELSE [ok |-> TRUE,
          v |-> << [_id |-> id, _type |-> "request", parentId |-> parentId,
                    name |-> IF Truthy(endpoint.summary) THEN endpoint.summary
                             ELSE Str(ToStr(h, endpoint.method, ViewDepth) \o " "
                                      \o ToStr(h, endpoint.path, ViewDepth)),
                    description |-> OrElse(endpoint.description, Str("")),
                    method |-> endpoint.method,
                    url |-> "{{ base_url }}" \o ToStr(h, endpoint.path, ViewDepth),
                    parameters |-> r[1].v, headers |-> r[2].v,
                    body |-> IF Truthy(endpoint.parameters.body)
                             THEN <<endpoint.parameters.body>> ELSE <<>>,
                    authentication |-> RequestAuth(r[3])] >>])

\* the number of readings of the clock before the folder of group k
RECURSIVE ReadingsBefore(_, _)
ReadingsBefore(groups, k) ==
  IF k = 1 THEN 1 ELSE ReadingsBefore(groups, k - 1) + 1 + Len(groups[k - 1].endpoints)

\* the readings of the clock in one call
Readings(groups) == ReadingsBefore(groups, Len(groups) + 1) + 1

\* `req_${Date.now()}_${index}`, for the reading n of the clock
RequestId(clock, n, index) == "req_" \o ToString(clock[n]) \o "_" \o ToString(index)

\* the requests of one group, from its endpoint j on; n is the number of
\* readings before its folder
RECURSIVE GroupRequests(_, _, _, _, _, _, _)
GroupRequests(h, metadata, endpoints, j, clock, n, folderId) ==
  IF j > Len(endpoints) THEN [ok |-> TRUE, v |-> <<>>]
  ELSE Bind(createRequest(h, RequestId(clock, n + 1 + j, j - 1), folderId, endpoints[j],
                          metadata), LAMBDA rq :
         IF ~rq.ok THEN rq
         ELSE Bind(GroupRequests(h, metadata, endpoints, j + 1, clock, n, folderId),
                   LAMBDA rest :
                IF rest.ok THEN [ok |-> TRUE, v |-> rq.v \o rest.v] ELSE rest))

\* the folders and requests of the groups k, k + 1, ...
RECURSIVE GroupResources(_, _, _, _, _, _)
GroupResources(h, metadata, groups, k, clock, workspaceId) ==
  IF k > Len(groups) THEN [ok |-> TRUE, v |-> <<>>]
  ELSE Bind(ReadingsBefore(groups, k), LAMBDA n :
    Bind("fld_" \o ToString(clock[n + 1]) \o "_" \o groups[k].name, LAMBDA folderId :
      Bind(GroupRequests(h, metadata, groups[k].endpoints, 1, clock, n, folderId),
           LAMBDA own :
        IF ~own.ok THEN own
        ELSE Bind(GroupResources(h, metadata, groups, k + 1, clock, workspaceId),
                  LAMBDA rest :
               IF ~rest.ok THEN rest
               ELSE [ok |-> TRUE,
                     v |-> << [_id |-> folderId, _type |-> "request_group",
                               parentId |-> workspaceId, name |-> groups[k].name] >>
                           \o own.v \o rest.v]))))

\* no collection: what the generator leaves when it throws, or was not called
NoCollection ==
  [_type |-> "", __export_format |-> 0, __export_date |-> 0, __export_source |-> "",
   resources |-> <<>>]

\* generateInsomniaCollection; ok is FALSE when it throws
generateInsomniaCollection(h, metadata, clock) ==
  Bind(groupEndpoints(metadata.endpoints), LAMBDA g :
    IF ~g.ok THEN [ok |-> FALSE, v |-> NoCollection]
    ELSE Bind("wrk_" \o ToString(clock[1]), LAMBDA workspaceId :
      Bind(GroupResources(h, metadata, g.groups, 1, clock, workspaceId), LAMBDA rs :
        IF ~rs.ok THEN [ok |-> FALSE, v |-> NoCollection]
        ELSE [ok |-> TRUE,
              v |-> [_type |-> "export", __export_format |-> 4,
                     __export_date |-> clock[Readings(g.groups)],
                     __export_source |-> "insomnia.metadata.generator:v1.0.0",
                     resources |->
                       << [_id |-> workspaceId, _type |-> "workspace",
                           name |-> metadata.title,
                           description |->
                             OrElse(metadata.description,
                                    Str("Generated from " \o ToStr(h, metadata.title, ViewDepth)
                                        \o " API metadata")),
                           scope |-> "collection"],
                          [_id |-> "env_" \o workspaceId, _type |-> "environment",
                           parentId |-> workspaceId, name |-> "Base Environment",
                           data |-> [base_url |-> metadata.baseUrl]] >>
                       \o rs.v]])))

\* what the clock may give on n readings in a row: it stands still, it moves on
\* at every reading, or it moves on once after the first reading
Clocks(n) ==
  { [i \in 1..n |-> 0], [i \in 1..n |-> i - 1], [i \in 1..n |-> IF i = 1 THEN 0 ELSE 1] }

(***************************************************************************)
(* The requests of the model: the sources and configs mapMetadata and     *)
(* validateMapping are called with.                                       *)
(***************************************************************************)
SeqsUpTo(S, n) == UNION {[1..k -> S] : k \in 0..n}

\* an optional string field: absent when the value is Absent
Absent == "<absent>"
Opt(k, v) == IF v = Absent THEN <<>> ELSE <<P(k, TStr(v))>>

RECURSIVE Methods(_)
Methods(ms) == IF ms = <<>> THEN <<>> ELSE <<Method(Head(ms))>> \o Methods(Tail(ms))

\* a RAML resource; methods = <<Absent>> stands for a resource without the key
Resource(uri, methods, displayName, withParams) ==
  TObj(Opt("relativeUri", uri)
       \o (IF methods = <<Absent>> THEN <<>> ELSE <<P("methods", TArr(Methods(methods)))>>)
       \o Opt("displayName", displayName)
       \o (IF withParams THEN <<P("uriParameters", TObj(<<P("id", TStr("string"))>>))>>
           ELSE <<>>))

Resources ==
  { Resource("/users", <<"GET">>, "Get Users", FALSE),
    Resource("/users", <<"Post", "GET">>, Absent, FALSE),
    Resource("/items", <<"DELETE">>, "Remove", TRUE),
    Resource(Absent, <<"GET">>, "Orphan", FALSE),
    Resource("/users", <<>>, "Empty", FALSE),
    Resource("/items", <<Absent>>, "Bare", FALSE) }

RECURSIVE Documentation(_)
Documentation(n) ==
  IF n = 0 THEN <<>>
  ELSE Documentation(n - 1) \o <<TObj(<<P("content", TStr(IF n = 1 THEN "Intro" ELSE "More"))>>)>>

\* a RAML-shaped source; docs = -1 stands for a source without documentation
RamlDoc(title, version, docs, resources) ==
  TObj(Opt("title", title) \o Opt("version", version)
       \o (IF docs < 0 THEN <<>> ELSE <<P("documentation", TArr(Documentation(docs)))>>)
       \o <<P("resources", TArr(resources))>>)

RamlHeaders ==
  { <<"Example API", "v1", 1>>, <<Absent, "v1", -1>>, <<"Example API", Absent, 2>>,
    <<Absent, Absent, 0>> }

RamlDocs ==
  { RamlDoc(hd[1], hd[2], hd[3], rs) : hd \in RamlHeaders, rs \in SeqsUpTo(Resources, MaxRes) }

\* an API-Blueprint-shaped source
BlueprintDoc(title, version, host, withResources) ==
  TObj(<<P("metadata", TObj(Opt("title", title) \o Opt("version", version) \o Opt("host", host)))>>
       \o (IF withResources
           THEN <<P("resourceGroups", TArr(<<
                  TObj(<<P("resources", TArr(<<
                    TObj(<< P("uriTemplate", TStr("/users")), P("name", TStr("Users")),
                            P("actions", TArr(<<Method("GET")>>)) >>),
                    TObj(<< P("uriTemplate", TStr("/users/{id}")), P("name", TStr("User")),
                            P("actions", TArr(<<>>)) >>) >>))>>) >>))>>
           ELSE <<>>))

BlueprintDocs ==
  { BlueprintDoc(t, v, h, r) : t \in {"Example API", Absent}, v \in {"1.0", Absent},
                               h \in {"api.example.com", Absent}, r \in BOOLEAN }

\* a source of the custom JSON shape
CustomJsonDoc(name, version, endpoints) ==
  TObj(<<P("api", TObj(Opt("name", name) \o Opt("version", version)
                       \o <<P("endpoints", TArr(endpoints))>>))>>)

Endpoints ==
  { TObj(<<P("path", TStr("/data")), P("method", TStr("GET")), P("summary", TStr("Get Data"))>>),
    TObj(<<P("path", TStr("/data")), P("summary", TStr("No method"))>>) }

CustomJsonDocs ==
  { CustomJsonDoc(n, v, es) : n \in {"Custom API", Absent}, v \in {"1.0.0", Absent},
                              es \in SeqsUpTo(Endpoints, 2) }

\* sources for hand-written configs; the last one is no object
GenericDocs ==
  { TObj(<<P("a", TStr("1")), P("b", TStr("2"))>>),
    TObj(<<P("b", TStr("2")), P("o", TObj(<<P("y", TStr("0"))>>))>>),
    TObj(<<>>),
    TStr("text") }

\* the rules of hand-written configs: sources that match a string, an object or
\* nothing, a malformed source, targets of one and two segments, a target below
\* a string of the skeleton, a target with an index, and rules with a transform
CustomRules ==
  { Rule("$.a", "x", "none"),
    Rule("$.b", "x", "none"),
    Rule("$.o", "x", "none"),
    Rule("$.b", "x.y", "none"),
    Rule("$.missing", "x.y", "none"),
    Rule("$[", "x", "none"),
    Rule("$.b", "openapi.z", "none"),
    Rule("$.a", "servers[0].url", "none"),
    Rule("$.missing", "info.description", "joinDocs"),
    Rule("$.a", "paths", "ramlPaths") }

CustomConfigs == SeqsUpTo(CustomRules, MaxRules)

\* hand-written configs with a target that runs through a member every object
\* inherits, below a key the result does not have yet
InheritedTargetConfigs ==
  { << Rule("$.b", "x", "none"), Rule("$.b", "y.toString.name.z", "none") >>,
    << Rule("$.b", "info.w.constructor.name", "none"), Rule("$.b", "x", "none") >> }

\* hand-written configs with rules for the required fields: a malformed source,
\* sources that match and that match nothing, two rules for one field, and
\* rules for other targets among them
RequiredFieldConfigs ==
  { << Rule("$[", "info.title", "none"), Rule("$.a", "info.version", "none") >>,
    << Rule("$.a", "info.title", "none"), Rule("$.missing", "info.title", "none"),
       Rule("$.missing", "x", "none"), Rule("$.b", "info.version", "none") >>,
    << Rule("$.a", "info.title", "none"), Rule("$[", "info.version", "none"),
       Rule("$.missing", "info.version", "none") >>,
    << Rule("$.a", "info.title", "none"), Rule("$.b", "info.version", "none"),
       Rule("$[", "x", "none") >> }

Request(doc, config, rules) == [doc |-> doc, config |-> config, rules |-> rules]

Requests ==
  { Request(examples(n)[1][1], n, mappingConfigs(n)) : n \in BuiltinNames }
  \cup { Request(d, "raml", RamlRules) : d \in RamlDocs }
  \cup { Request(d, "apiBlueprint", BlueprintRules) : d \in BlueprintDocs }
  \cup { Request(d, "customJson", CustomJsonRules) : d \in CustomJsonDocs }
  \cup { Request(d, "custom", rs) : d \in GenericDocs, rs \in CustomConfigs }
  \cup { Request(d, "custom", rs) : d \in GenericDocs, rs \in RequiredFieldConfigs }
  \cup { Request(d, "custom", rs) : d \in GenericDocs, rs \in InheritedTargetConfigs }

(***************************************************************************)
(* The inputs of the parsers.                                              *)
(***************************************************************************)
\* JSON.stringify(tree), as parseExample.ts writes the text it parses
RECURSIVE JsonText(_)
RECURSIVE JsonMembers(_, _)
RECURSIVE JsonItems(_, _)

JsonMembers(kv, i) ==
  IF i > Len(kv) THEN ""
  ELSE "\"" \o kv[i][1] \o "\":" \o JsonText(kv[i][2])
       \o (IF i = Len(kv) THEN "" ELSE "," \o JsonMembers(kv, i + 1))

JsonItems(items, i) ==
  IF i > Len(items) THEN ""
  ELSE JsonText(items[i]) \o (IF i = Len(items) THEN "" ELSE "," \o JsonItems(items, i + 1))

JsonText(tree) ==
  IF tree.t = "str" THEN "\"" \o tree.s \o "\""
  ELSE IF tree.t = "bool" THEN tree.s
  ELSE IF tree.t = "null" THEN "null"
  ELSE IF tree.t = "obj" THEN "{" \o JsonMembers(tree.kv, 1) \o "}"
  ELSE "[" \o JsonItems(tree.items, 1) \o "]"

\* a JSON text: JSON.parse gives the document back, and so does yaml.load, as
\* YAML reads JSON; the two other parsers are given separately
JsonInput(tree, swagger, raml) == Input(JsonText(tree), <<tree>>, <<tree>>, <<tree>>, swagger, raml)

\* the operation under a key of a path item
OperationFor(key) ==
  IF key = "post" THEN
    TObj(<< P("summary", TStr("Create")),
            P("parameters", TArr(<< TObj(<<P("name", TStr("dry")), P("in", TStr("query"))>>),
                                    TObj(<<P("name", TStr("id")), P("in", TStr("path"))>>) >>)),
            P("security", TArr(<<TObj(<<P("key", TArr(<<>>))>>)>>)) >>)
  ELSE IF key = "parameters" THEN TArr(<<TObj(<<P("name", TStr("id")), P("in", TStr("path"))>>)>>)
  ELSE IF key = "$ref" THEN TStr("#/components/pathItems/shared")
  ELSE TObj(<<P("summary", TStr(key))>>)

\* a path item with the given keys, in the given order
PathItem(keys) == TObj([i \in DOMAIN keys |-> P(keys[i], OperationFor(keys[i]))])

\* the key lists of the path items of the model
PathItemKeys ==
  { <<"get">>, <<"post", "get">>, <<"parameters", "get", "$ref">>, <<"Delete", "parameters">>,
    <<>> }

\* the paths of a document, by position
PathNames == <<"/users", "/items", "/users/{id}", "/orders">>

\* an OpenAPI 3 document with info and servers, or a Swagger 2 document without
OpenApiDoc(swagger2, paths) ==
  TObj((IF swagger2 THEN <<P("swagger", TStr("2.0")), P("basePath", TStr("/v2"))>>
        ELSE << P("openapi", TStr("3.0.0")),
                P("info", TObj(<<P("title", TStr("Shop")), P("version", TStr("2.1"))>>)),
                P("servers", TArr(<<TObj(<<P("url", TStr("https://shop.example"))>>)>>)) >>)
       \o <<P("paths", TObj(paths))>>)

OpenApiDocs ==
  { OpenApiDoc(s, [i \in DOMAIN items |-> P(PathNames[i], PathItem(items[i]))]) :
      s \in BOOLEAN, items \in SeqsUpTo(PathItemKeys, MaxPaths) }

\* OpenAPI documents that are not well formed: a path item that is null, an
\* operation that is null, parameters that are no list
BrokenOpenApiDocs ==
  { OpenApiDoc(FALSE, <<P("/users", TNull)>>),
    OpenApiDoc(FALSE, <<P("/users", TObj(<<P("get", TNull)>>))>>),
    OpenApiDoc(TRUE, <<P("/users", TObj(<<P("get", TObj(<<P("parameters", TStr("id"))>>))>>))>>),
    TObj(<<P("openapi", TStr("3.0.0"))>>) }

\* documents that are no OpenAPI documents
GenericJsonDocs ==
  { TObj(<< P("name", TStr("Inventory")),
            P("endpoints", TArr(<< TObj(<<P("path", TStr("/stock")), P("method", TStr("get"))>>),
                                   TObj(<<P("url", TStr("/items"))>>) >>)) >>),
    TObj(<< P("title", TStr("Paths only")),
            P("paths", TObj(<<P("/a", PathItem(<<"get", "parameters">>))>>)) >>),
    TObj(<< P("title", TStr("Open data")),
            P("auth", TObj(<<P("type", TStr("none"))>>)) >>),
    TObj(<<>>),
    TArr(<<>>),
    TNull }

\* documents that declare authentication: OpenAPI 3 schemes with a security
\* list, Swagger 2 definitions without one, a top-level securitySchemes map,
\* an auth object, an authentication object next to OpenAPI schemes, and scheme
\* maps that are present but empty
AuthDocs ==
  { TObj(<< P("openapi", TStr("3.0.0")),
            P("components", TObj(<<P("securitySchemes", TObj(<<
               P("bearerAuth", TObj(<<P("type", TStr("http"))>>)),
               P("keyAuth", TObj(<<P("type", TStr("apiKey")), P("in", TStr("query"))>>)) >>))>>)),
            P("security", TArr(<<TObj(<<P("bearerAuth", TArr(<<>>))>>)>>)),
            P("authentication", TObj(<<P("type", TStr("basic"))>>)),
            P("paths", TObj(<<P("/users", PathItem(<<"post", "get">>))>>)) >>),
    TObj(<< P("swagger", TStr("2.0")),
            P("securityDefinitions", TObj(<<
               P("keyAuth", TObj(<<P("type", TStr("apiKey")), P("in", TStr("query"))>>)) >>)) >>),
    TObj(<< P("title", TStr("Shop")),
            P("securitySchemes", TObj(<<
               P("oauth", TObj(<< P("type", TStr("OAuth 2.0")),
                                  P("describedBy", TObj(<<P("headers", TObj(<<
                                     P("Authorization", TObj(<<>>)) >>))>>)) >>)) >>)) >>),
    TObj(<< P("title", TStr("Shop")),
            P("auth", TObj(<< P("type", TStr("bearer")), P("required", TBool(FALSE)),
                              P("location", TStr("query")) >>)) >>),
    TObj(<< P("openapi", TStr("3.0.0")),
            P("components", TObj(<<P("securitySchemes", TObj(<<>>))>>)),
            P("auth", TObj(<<P("type", TStr("basic"))>>)) >>),
    TObj(<< P("title", TStr("Shop")), P("securitySchemes", TObj(<<>>)) >>) }

\* a RAML api, as RAMLParser.load gives it
RamlApi ==
  TObj(<< P("title", TStr("Shop")),
          P("resources", TArr(<<
            TObj(<< P("relativeUri", TStr("/users")),
                    P("methods", TArr(<<Method("get"), Method("Post")>>)),
                    P("resources", TArr(<<
                      TObj(<< P("relativeUri", TStr("/{id}")),
                              P("methods", TArr(<<Method("delete")>>)) >>) >>)) >>),
            TObj(<< P("relativeUri", TStr("/items")),
                    P("methods", TArr(<<Method("get")>>)) >>) >>)) >>)

\* a RAML api three levels deep, with methods at its root and a resource
\* without methods
RamlDeepApi ==
  TObj(<< P("title", TStr("Deep")),
          P("methods", TArr(<<Method("options")>>)),
          P("resources", TArr(<<
            TObj(<< P("relativeUri", TStr("/a")),
                    P("resources", TArr(<<
                      TObj(<< P("relativeUri", TStr("/b")),
                              P("methods", TArr(<<Method("get")>>)),
                              P("resources", TArr(<<
                                TObj(<< P("relativeUri", TStr("/c")),
                                        P("methods", TArr(<<Method("put"), Method("get")>>))
                                     >>) >>)) >>),
                      TObj(<< P("relativeUri", TStr("/d")),
                              P("methods", TArr(<<Method("delete")>>)) >>) >>)) >>) >>)) >>)

\* what may follow the RAML signature in a text
RamlFollowers ==
  { "", " 1.0\ntitle: Shop", " 1.0\nopenapi: 3.0.0", "\n{\"swagger\": \"2.0\"}",
    " 0.8\n---\nswagger: x", "{\"openapi\": \"3.0.0\"}", "[", " \n " }

\* texts that start with the RAML signature; whether yaml.load and
\* RAMLParser.load read them is left open
RamlInputs ==
  { Input("#%RAML" \o f, <<>>, y, y, <<>>, r) :
      f \in RamlFollowers, y \in {<<>>, <<TObj(<<P("title", TStr("Shop"))>>)>>},
      r \in {<<>>, <<RamlApi>>, <<RamlDeepApi>>} }

YamlDoc == TObj(<<P("openapi", TStr("3.0.0")), P("paths", TObj(<<P("/users", PathItem(<<"get">>))>>))>>)

\* other texts: YAML with and without a signature at its start, text that
\* only looks like JSON, white space around a signature or a JSON text, a YAML
\* flow mapping, and no signature
OtherInputs ==
  { Input("openapi: 3.0.0\npaths:\n  /users:\n    get:\n      summary: get",
          <<>>, <<YamlDoc>>, <<YamlDoc>>, <<YamlDoc>>, <<>>),
    Input("---\ntitle: Shop", <<>>, <<TObj(<<P("title", TStr("Shop"))>>)>>,
          <<TObj(<<P("title", TStr("Shop"))>>)>>, <<>>, <<>>),
    Input("swagger: \"2.0\"\nbasePath: [", <<>>, <<>>, <<>>, <<>>, <<>>),
    Input("title: Shop\nopenapi: 3.0.0", <<>>,
          <<TObj(<<P("title", TStr("Shop")), P("openapi", TStr("3.0.0"))>>)>>,
          <<TObj(<<P("title", TStr("Shop")), P("openapi", TStr("3.0.0"))>>)>>, <<>>, <<>>),
    Input("{\"openapi\": \"3.0.0\", ", <<>>, <<>>, <<>>, <<>>, <<>>),
    Input("{\"swagger\": \"2.0\", paths: {}}", <<>>,
          <<TObj(<<P("swagger", TStr("2.0")), P("paths", TObj(<<>>))>>)>>,
          <<TObj(<<P("swagger", TStr("2.0")), P("paths", TObj(<<>>))>>)>>,
          <<TObj(<<P("swagger", TStr("2.0")), P("paths", TObj(<<>>))>>)>>, <<>>),
    Input(" \n#%RAML 1.0\ntitle: Shop", <<>>, <<TObj(<<P("title", TStr("Shop"))>>)>>,
          <<TObj(<<P("title", TStr("Shop"))>>)>>, <<>>, <<RamlApi>>),
    Input("  openapi: 3.0.0\npaths: {}", <<>>, <<>>,
          <<TObj(<<P("openapi", TStr("3.0.0")), P("paths", TObj(<<>>))>>)>>, <<>>, <<>>),
    Input(" \n{\"swagger\": \"2.0\"}\n", <<TObj(<<P("swagger", TStr("2.0"))>>)>>,
          <<TObj(<<P("swagger", TStr("2.0"))>>)>>, <<TObj(<<P("swagger", TStr("2.0"))>>)>>,
          <<>>, <<>>),
    Input("{title: Shop}", <<>>, <<TObj(<<P("title", TStr("Shop"))>>)>>,
          <<TObj(<<P("title", TStr("Shop"))>>)>>, <<>>, <<>>),
    Input("hello", <<>>, <<TStr("hello")>>, <<TStr("hello")>>, <<>>, <<>>),
    Input("", <<>>, <<TUndef>>, <<TUndef>>, <<>>, <<>>) }

Inputs ==
  { JsonInput(d, <<>>, <<>>) :
      d \in OpenApiDocs \cup BrokenOpenApiDocs \cup GenericJsonDocs \cup AuthDocs }
  \cup RamlInputs \cup OtherInputs

\* the format arguments parseMetadata is called with; "" is none
Formats == {"", "json", "JSON", "yaml", "yml", "openapi", "swagger", "raml", "xml", "Xml"}

ParseRequest(input, format) == [input |-> input, format |-> format]

\* every input with the format left out, and some inputs with each format
ParseRequests ==
  { ParseRequest(i, "") : i \in Inputs }
  \cup { ParseRequest(JsonInput(d, <<d>>, <<>>), f) :
           d \in {OpenApiDoc(FALSE, <<P("/users", PathItem(<<"post", "get">>))>>)},
           f \in Formats }
  \cup { ParseRequest(i, f) : i \in {x \in RamlInputs : x.text = "#%RAML 1.0\ntitle: Shop"},
                              f \in Formats }

(***************************************************************************)
(* splitCensusApiRequest: a Census request with many variables is split    *)
(* into requests of at most varLimit variables each.                       *)
(***************************************************************************)
LineBreaks == {"\n", "\r"}

\* what `.` of a regular expression without the s flag goes over
NoLineBreak(s) == \A i \in 1..Len(s) : Char(s, i) \notin LineBreaks

\* the end of the longest run of characters other than '&' that starts at i
RunEnd(url, i) ==
  LET stops == {j \in i..Len(url) : Char(url, j) = "&"}
  IN IF stops = {} THEN Len(url) ELSE (CHOOSE j \in stops : \A m \in stops : j <= m) - 1

\* url.match(/^(.*\?get=)([^&]+)(.*)$/i): the places where '?get=' (in any
\* letter case) may start, and the three groups for the last of them
GetStarts(url) ==
  LET lower == ToLowerCase(url)
  IN {k \in 1..(Len(url) - 5) :
        /\ SubSeq(lower, k, k + 4) = "?get="
        /\ Char(url, k + 5) # "&"
        /\ NoLineBreak(SubSeq(url, 1, k - 1))
        /\ NoLineBreak(SubSeq(url, RunEnd(url, k + 5) + 1, Len(url)))}

MatchGet(url) ==
  LET starts == GetStarts(url)
      k == CHOOSE i \in starts : \A j \in starts : j <= i
  IN IF starts = {} THEN [ok |-> FALSE, base |-> "", vars |-> "", rest |-> ""]
     ELSE [ok |-> TRUE,
           base |-> SubSeq(url, 1, k + 4),
           vars |-> SubSeq(url, k + 5, RunEnd(url, k + 5)),
           rest |-> SubSeq(url, RunEnd(url, k + 5) + 1, Len(url))]

\* chunk.join(','), from element i on
RECURSIVE JoinVars(_, _)
JoinVars(names, i) ==
  IF i > Len(names) THEN ""
  ELSE IF i = Len(names) THEN names[i]
  ELSE names[i] \o "," \o JoinVars(names, i + 1)

\* match[2].split(',').map(v => v.trim()).filter(Boolean)
CensusVars(text) ==
  LET pieces == Split(text, ",")
      trimmed == [k \in 1..Len(pieces) |-> Trim(pieces[k])]
  IN SelectSeq(trimmed, LAMBDA v : v # "")

\* the whole list as one chunk, whatever the limit
OneChunk(names, i, varLimit) == IF names = <<>> THEN <<>> ELSE <<names>>

\* the loop `for (let i = 0; i < vars.length; i += varLimit)`: the slices
\* vars.slice(i, i + varLimit), from offset i on
RECURSIVE Chunks(_, _, _)
Chunks(names, i, varLimit) ==
  IF i >= Len(names) THEN <<>>
  ELSE <<SubSeq(names, i + 1, IF i + varLimit < Len(names) THEN i + varLimit ELSE Len(names))>>
       \o Chunks(names, i + varLimit, varLimit)

splitCensusApiRequest(url, varLimit) ==
  LET match == MatchGet(url)
      chunks == Chunks(CensusVars(match.vars), 0, varLimit)
      found == [c \in 1..Len(chunks) |-> match.base \o JoinVars(chunks[c], 1) \o match.rest]
  IN IF ~match.ok THEN <<url>>
     ELSE IF Len(found) > 0 THEN found ELSE <<url>>

\* Census requests as they are written: what stands before the variables,
\* the variables between commas, and what follows them
CensusBases == {"api?get=", "api?GET=", "a?get=b?get=", "api?vars="}
CensusNames == {"NAME", " B01 ", ""}
CensusRests == {"", "&for=us:1"}

CensusRequests ==
  [base : CensusBases, names : SeqsUpTo(CensusNames, MaxVars), rest : CensusRests]

NoCensusRequest == [base |-> "", names |-> <<>>, rest |-> ""]

UrlOf(written) == written.base \o JoinVars(written.names, 1) \o written.rest

(***************************************************************************)
(* The mapping page (MappingSystemPage.tsx).  A text of the page is kept   *)
(* with what JSON.parse and yaml.load return for it, as the inputs of the  *)
(* parsers are.                                                            *)
(***************************************************************************)
\* mapMetadata as one call: the loop over the rules from rule i on
RECURSIVE MapRulesFrom(_, _, _, _, _)
MapRulesFrom(h, source, result, rules, i) ==
  IF i > Len(rules) THEN h
  ELSE Bind(ApplyRule(h, source, result, rules[i]), LAMBDA r :
         MapRulesFrom(r.h, source, result, rules, i + 1))

\* mapMetadata(sourceMetadata, mappingConfig): the heap after the call and
\* the result it returns
mapMetadata(h, source, rules) ==
  Bind(NewResult(h), LAMBDA r :
    [h |-> MapRulesFrom(r.h, source, r.v, rules, 1), v |-> r.v])

RECURSIVE Spaces(_)
Spaces(n) == IF n = 0 THEN "" ELSE " " \o Spaces(n - 1)

\* JSON.stringify(tree, null, 2): one member or item a line, two more blanks
\* at each level
RECURSIVE PrettyText(_, _)
RECURSIVE PrettyMembers(_, _, _)
RECURSIVE PrettyItems(_, _, _)

PrettyMembers(kv, i, depth) ==
  IF i > Len(kv) THEN ""
  ELSE Spaces(2 * depth) \o "\"" \o kv[i][1] \o "\": " \o PrettyText(kv[i][2], depth)
       \o (IF i = Len(kv) THEN "" ELSE ",\n" \o PrettyMembers(kv, i + 1, depth))

PrettyItems(items, i, depth) ==
  IF i > Len(items) THEN ""
  ELSE Spaces(2 * depth) \o PrettyText(items[i], depth)
       \o (IF i = Len(items) THEN "" ELSE ",\n" \o PrettyItems(items, i + 1, depth))

PrettyText(tree, depth) ==
  IF tree.t = "str" THEN "\"" \o tree.s \o "\""
  ELSE IF tree.t = "bool" THEN tree.s
  ELSE IF tree.t = "null" THEN "null"
  ELSE IF tree.t = "obj" THEN
    IF tree.kv = <<>> THEN "{}"
    ELSE "{\n" \o PrettyMembers(tree.kv, 1, depth + 1) \o "\n" \o Spaces(2 * depth) \o "}"
  ELSE IF tree.items = <<>> THEN "[]"
  ELSE "[\n" \o PrettyItems(tree.items, 1, depth + 1) \o "\n" \o Spaces(2 * depth) \o "]"

\* a text of the page with what JSON.parse and yaml.load return for it
PageText(text, json, yaml) == Input(text, json, yaml, <<>>, <<>>, <<>>)

\* the text handleFormatChange writes for a document: JSON.parse reads it back
Stringified(tree) == PageText(PrettyText(tree, 0), <<tree>>, <<tree>>)

EmptyText == PageText("", <<>>, <<>>)

ShopDoc == TObj(<<P("title", TStr("Shop")), P("version", TStr("v2"))>>)
UntitledDoc == TObj(<<P("version", TStr("v2"))>>)

\* what is typed into the source box or read from a file: nothing, a JSON
\* text with a title and a version, a YAML text without a title, and a text
\* neither parser reads
TypedTexts ==
  { EmptyText,
    PageText(JsonText(ShopDoc), <<ShopDoc>>, <<ShopDoc>>),
    PageText("version: v2", <<>>, <<UntitledDoc>>),
    PageText("{\"title\": ", <<>>, <<>>) }

\* the values of the format select: "" and the keys of mappingConfigs
FormatOptions == {""} \cup BuiltinNames

\* mappedOutput before any conversion
NoOutput == VNull

\* the try block of convertMetadata: the errors it sets, whether it maps and
\* the document it then sets as mappedOutput
Conversion(text, selected) ==
  IF text.json = <<>> /\ text.yaml = <<>> THEN [errors |-> <<>>, mapped |-> FALSE, doc |-> NoOutput]
  ELSE Bind(Load(IF text.json # <<>> THEN text.json[1] ELSE text.yaml[1]), LAMBDA l :
    Bind(validateMapping(l.h, l.v, mappingConfigs(selected)), LAMBDA errs :
      IF Len(errs) > 0 THEN [errors |-> errs, mapped |-> FALSE, doc |-> NoOutput]
      ELSE Bind(mapMetadata(l.h, l.v, mappingConfigs(selected)), LAMBDA m :
             [errors |-> <<>>, mapped |-> TRUE, doc |-> View(m.h, m.v, ViewDepth)])))

(***************************************************************************)
(* The state: one call of the mapper or the validator on a request, or    *)
(* calls of the format detector and one call of the parser on an input.   *)
(***************************************************************************)
VARIABLES
  heap,       \* the objects of the program
  pc,         \* the mapper: "idle", "mapping" (in the loop of mapMetadata),
              \* "mapped" (it returned), "thrown" (it threw), "validated";
              \* the parser: "ready", "parsed" (parseMetadata resolved),
              \* "rejected" (it rejected), "generated" (the generator
              \* returned a collection), "failed" (it threw)
  sourceDoc,  \* the source as it was written, before any call
  config,     \* the name of the config ("custom" for a hand-written one)
  rules,      \* mappingConfig.rules
  source,     \* sourceMetadata: the value passed to the calls
  done,       \* the number of rules the loop has gone through
  result,     \* the result object of mapMetadata
  before,     \* the heap before the last rule the loop went through
  warned,     \* the rules whose application threw: one console.warn each
  errors,     \* what validateMapping returned
  input,      \* the input of the parser
  format,     \* the format argument of parseMetadata, "" when left out
  calls,      \* the number of calls of detectFormat on the input
  tags,       \* what the calls of detectFormat returned, in order
  parsed,     \* what parseMetadata resolved to, or how it rejected
  collection, \* what generateInsomniaCollection returned for it
  census,     \* a Census request as it was written: base, names, rest
  url,        \* the url argument of splitCensusApiRequest
  varLimit,   \* its varLimit argument
  splitUrls,  \* what splitCensusApiRequest returned
  sourceMetadata,   \* the mapping page: the text of the source box
  selectedFormat,   \* the value of the format select
  mappedOutput,     \* the document shown as output, or null
  validationErrors, \* the errors shown
  isConverting,     \* the Convert button shows its spinner
  reading           \* the contents of the files being read

mapperVars == <<sourceDoc, config, rules, source, done, result, before, warned, errors>>
parserVars == <<input, format, calls, tags, parsed, collection>>
censusVars == <<census, url, varLimit, splitUrls>>
pageVars == <<sourceMetadata, selectedFormat, mappedOutput, validationErrors, isConverting, reading>>
otherVars == <<censusVars, pageVars>>
vars == <<heap, pc, mapperVars, parserVars, otherVars>>

EmptyHeap == [id \in {} |-> EmptyObj]

\* the parser is not in use
NoParser ==
  /\ input = Input("", <<>>, <<>>, <<>>, <<>>, <<>>)
  /\ format = ""
  /\ calls = 0
  /\ tags = <<>>
  /\ parsed = Thrown("")
  /\ collection = NoCollection

\* splitCensusApiRequest is not in use
NoCensus ==
  /\ census = NoCensusRequest
  /\ url = ""
  /\ varLimit = 1
  /\ splitUrls = <<>>

\* the mapping page as it is mounted (the useState calls)
NewPage ==
  /\ sourceMetadata = EmptyText
  /\ selectedFormat = ""
  /\ mappedOutput = NoOutput
  /\ validationErrors = <<>>
  /\ isConverting = FALSE
  /\ reading = {}

\* nothing but the mapper and the parser is in use
NoOther == NoCensus /\ NewPage

\* the mapper is not in use
NoMapper ==
  /\ sourceDoc = TUndef
  /\ config = ""
  /\ rules = <<>>
  /\ source = Undef
  /\ done = 0
  /\ result = Undef
  /\ before = EmptyHeap
  /\ warned = {}
  /\ errors = <<>>

Init ==
  /\ \E rq \in Requests : \E l \in {Load(rq.doc)} :
       /\ heap = l.h
       /\ source = l.v
       /\ sourceDoc = rq.doc
       /\ config = rq.config
       /\ rules = rq.rules
       /\ before = l.h
  /\ pc = "idle"
  /\ done = 0
  /\ result = Undef
  /\ warned = {}
  /\ errors = <<>>
  /\ NoParser
  /\ NoOther

\* validateMapping(sourceMetadata, mappingConfig)
ValidateMapping ==
  /\ pc = "idle"
  /\ errors' = validateMapping(heap, source, rules)
  /\ pc' = "validated"
  /\ UNCHANGED <<heap, sourceDoc, config, rules, source, done, result, before, warned>>
  /\ UNCHANGED <<parserVars, otherVars>>

\* mapMetadata(sourceMetadata, mappingConfig): the result skeleton is built
MapBegin ==
  /\ pc = "idle"
  /\ \E r \in {NewResult(heap)} :
        /\ heap' = r.h
        /\ result' = r.v
        /\ before' = r.h
  /\ pc' = "mapping"
  /\ done' = 0
  /\ UNCHANGED <<sourceDoc, config, rules, source, warned, errors>>
  /\ UNCHANGED <<parserVars, otherVars>>

\* a loop that lets what the body of the try statement threw escape
Rethrow(raised) == IF raised THEN "thrown" ELSE "mapping"

\* where mapMetadata is after the try statement of one rule: its catch block
\* warns and falls through, so the loop goes on whether the body threw or not
AfterRule(raised) == "mapping"

\* one iteration of the loop over the rules
MapRule ==
  /\ pc = "mapping"
  /\ done < Len(rules)
  /\ \E r \in {ApplyRule(heap, source, result, rules[done + 1])} :
        /\ heap' = r.h
        /\ warned' = IF r.raised THEN warned \cup {done + 1} ELSE warned
        /\ pc' = AfterRule(r.raised)
  /\ before' = heap
  /\ done' = done + 1
  /\ UNCHANGED <<sourceDoc, config, rules, source, result, errors>>
  /\ UNCHANGED <<parserVars, otherVars>>

\* return result
MapReturn ==
  /\ pc = "mapping"
  /\ done = Len(rules)
  /\ pc' = "mapped"
  /\ UNCHANGED <<heap, mapperVars, parserVars, otherVars>>

Next == ValidateMapping \/ MapBegin \/ MapRule \/ MapReturn

Spec == Init /\ [][Next]_vars

(***************************************************************************)
(* The parser: detectFormat may be called on the input any number of      *)
(* times (up to MaxCalls), parseMetadata once.                            *)
(***************************************************************************)
ParserInit ==
  /\ \E rq \in ParseRequests : input = rq.input /\ format = rq.format
  /\ heap = EmptyHeap
  /\ pc = "ready"
  /\ calls = 0
  /\ tags = <<>>
  /\ parsed = Thrown("")
  /\ collection = NoCollection
  /\ NoMapper
  /\ NoOther

\* detectFormat(input)
DetectFormat ==
  /\ pc = "ready"
  /\ calls < MaxCalls
  /\ tags' = Append(tags, detectFormat(input))
  /\ calls' = calls + 1
  /\ UNCHANGED <<heap, pc, input, format, parsed, collection, mapperVars, otherVars>>

\* parseMetadata(input, format)
ParseMetadata ==
  /\ pc = "ready"
  /\ \E r \in {parseMetadata(heap, input, format)} :
        /\ heap' = r.h
        /\ parsed' = r.v
        /\ pc' = IF r.v.ok THEN "parsed" ELSE "rejected"
  /\ UNCHANGED <<input, format, calls, tags, collection, mapperVars, otherVars>>

\* generateInsomniaCollection(parsed), on what parseMetadata resolved to
GenerateCollection ==
  /\ pc = "parsed"
  /\ \E n \in {Readings(groupEndpoints(parsed.endpoints).groups)} : \E clock \in Clocks(n) :
       \E r \in {generateInsomniaCollection(heap, parsed, clock)} :
         /\ collection' = r.v
         /\ pc' = IF r.ok THEN "generated" ELSE "failed"
  /\ UNCHANGED <<heap, input, format, calls, tags, parsed, mapperVars, otherVars>>

ParserNext == DetectFormat \/ ParseMetadata \/ GenerateCollection

ParserSpec == ParserInit /\ [][ParserNext]_vars

(***************************************************************************)
(* The Census tool: splitCensusApiRequest is called once on a request.     *)
(***************************************************************************)
CensusInit ==
  /\ \E written \in CensusRequests : census = written /\ url = UrlOf(written)
  /\ varLimit \in 1..MaxVarLimit
  /\ splitUrls = <<>>
  /\ heap = EmptyHeap
  /\ pc = "asked"
  /\ NoMapper
  /\ NoParser
  /\ NewPage

\* splitCensusApiRequest(url, varLimit)
SplitCensusApiRequest ==
  /\ pc = "asked"
  /\ splitUrls' = splitCensusApiRequest(url, varLimit)
  /\ pc' = "split"
  /\ UNCHANGED <<heap, mapperVars, parserVars, census, url, varLimit, pageVars>>

CensusNext == SplitCensusApiRequest

CensusSpec == CensusInit /\ [][CensusNext]_vars

(***************************************************************************)
(* The mapping page: its handlers, in any order.  pc is "page" after the  *)
(* page is mounted and after any handler but convertMetadata, "converted" *)
(* after convertMetadata.                                                  *)
(***************************************************************************)
PageInit ==
  /\ NewPage
  /\ heap = EmptyHeap
  /\ pc = "page"
  /\ NoMapper
  /\ NoParser
  /\ NoCensus

\* handleFormatChange(format)
HandleFormatChange ==
  /\ pc \in {"page", "converted"}
  /\ \E f \in FormatOptions :
       /\ selectedFormat' = f
       /\ sourceMetadata' = IF f \in BuiltinNames /\ Len(examples(f)) > 0
                            THEN Stringified(examples(f)[1][1])
                            ELSE sourceMetadata
  /\ mappedOutput' = NoOutput
  /\ validationErrors' = <<>>
  /\ pc' = "page"
  /\ UNCHANGED <<heap, mapperVars, parserVars, censusVars, isConverting, reading>>

\* handleSourceChange(value)
HandleSourceChange ==
  /\ pc \in {"page", "converted"}
  /\ \E value \in TypedTexts : sourceMetadata' = value
  /\ mappedOutput' = NoOutput
  /\ validationErrors' = <<>>
  /\ pc' = "page"
  /\ UNCHANGED <<heap, mapperVars, parserVars, censusVars, selectedFormat, isConverting, reading>>

\* handleFileUpload(event), for a file chosen: a reader is started on it
HandleFileUpload ==
  /\ pc \in {"page", "converted"}
  /\ Cardinality(reading) < MaxReads
  /\ \E content \in TypedTexts \ reading : reading' = reading \cup {content}
  /\ pc' = "page"
  /\ UNCHANGED <<heap, mapperVars, parserVars, censusVars, sourceMetadata, selectedFormat,
                 mappedOutput, validationErrors, isConverting>>

\* reader.onload: one of the readers has read its file
ReaderOnload ==
  /\ pc \in {"page", "converted"}
  /\ \E content \in reading :
       /\ sourceMetadata' = content
       /\ reading' = reading \ {content}
  /\ pc' = "page"
  /\ UNCHANGED <<heap, mapperVars, parserVars, censusVars, selectedFormat, mappedOutput,
                 validationErrors, isConverting>>

\* convertMetadata(), from its first line to the end of its finally block
ConvertMetadata ==
  /\ pc \in {"page", "converted"}
  /\ IF sourceMetadata.text = "" \/ selectedFormat = ""
     THEN UNCHANGED <<mappedOutput, validationErrors, isConverting>>
     ELSE \E c \in {Conversion(sourceMetadata, selectedFormat)} :
            /\ validationErrors' = c.errors
            /\ mappedOutput' = IF c.mapped THEN c.doc ELSE mappedOutput
            /\ isConverting' = FALSE
  /\ pc' = "converted"
  /\ UNCHANGED <<heap, mapperVars, parserVars, censusVars, sourceMetadata, selectedFormat, reading>>

PageNext ==
  HandleFormatChange \/ HandleSourceChange \/ HandleFileUpload \/ ReaderOnload \/ ConvertMetadata

PageSpec == PageInit /\ [][PageNext]_vars

\* the document mapMetadata has built so far
Doc == View(heap, result, ViewDepth)

(***************************************************************************)
(* What the properties below speak of.                                     *)
(***************************************************************************)
\* mapMetadata is in its loop or has returned
Mapping == pc \in {"mapping", "mapped"}

\* the rule the loop went through last
LastRule == rules[done]

\* what the source query of a rule gave on heap h
Query(h, rule) == jpQuery(h, source, rule.source)
Matches(h, rule) == Query(h, rule).ok /\ Query(h, rule).vals # <<>>
MatchesNothing(h, rule) == Query(h, rule).ok /\ Query(h, rule).vals = <<>>

\* the value at the path parts[i], parts[i + 1], ... below v, undefined when
\* there is none
RECURSIVE ValueFrom(_, _, _, _)
ValueFrom(h, v, parts, i) ==
  IF i > Len(parts) THEN v
  ELSE IF ~IsRef(v) THEN Undef
  ELSE ValueFrom(h, GetProp(h, v, parts[i]), parts, i + 1)

ValueAt(h, v, parts) == ValueFrom(h, v, parts, 1)

\* the value found at a target path of the result
AtTarget(h, target) == ValueAt(h, result, Split(target, "."))

\* the result skeleton, as a document
Skeleton ==
  TObj(<< P("openapi", TStr("3.0.3")), P("info", TObj(<<>>)), P("servers", TArr(<<>>)),
          P("paths", TObj(<<>>)) >>)

\* the request is a built-in config on its own bundled example
IsExample ==
  config \in BuiltinNames /\ \E i \in DOMAIN examples(config) : sourceDoc = examples(config)[i][1]

Expected == (CHOOSE e \in {examples(config)[i] : i \in DOMAIN examples(config)} : e[1] = sourceDoc)[2]

\* the candidate value of a rule on heap h, as a document (undefined when the
\* query or the transform throws)
RuleValue(h, rule) ==
  IF ~Query(h, rule).ok THEN VUndef
  ELSE LET c == Candidate(h, rule, Query(h, rule).vals)
       IN IF c.ok THEN View(c.h, c.v, ViewDepth) ELSE VUndef

\* the document found at a target path of the result
DocAtTarget(target) == View(heap, AtTarget(heap, target), ViewDepth)

\* an earlier rule has the target of the last rule, and the sources of both match
EarlierSameTarget ==
  /\ Mapping
  /\ Matches(before, LastRule)
  /\ \E i \in 1..(done - 1) : rules[i].target = LastRule.target /\ Matches(before, rules[i])

(***************************************************************************)
(* C1: mapMetadata called with a config whose rule list is empty returns  *)
(* exactly the skeleton { openapi: '3.0.3', info: {}, servers: [],        *)
(* paths: {} }, whatever the source.                                      *)
(***************************************************************************)
C1_EmptyRulesGiveSkeleton == (pc = "mapped" /\ rules = <<>>) => Doc = Norm(Skeleton)

C1_Witness == pc = "mapped" /\ rules = <<>> /\ IsRef(source) /\ Doc = Norm(Skeleton)

C3_NoMatchSkipsAnyRule ==
  (Mapping /\ done >= 1 /\ MatchesNothing(before, LastRule))
    => (done \notin warned /\ heap = before)

(***************************************************************************)
(* C3, amended: a rule without a transform whose source query matches     *)
(* nothing is skipped: it does not throw and it changes nothing.          *)
(***************************************************************************)
C3_NoMatchSkipsPlainRule ==
  (Mapping /\ done >= 1 /\ MatchesNothing(before, LastRule) /\ LastRule.transform = "none")
    => (done \notin warned /\ heap = before)

C3_Witness ==
  /\ Mapping /\ done >= 1
  /\ MatchesNothing(before, LastRule)
  /\ LastRule = Rule("$.missing", "x.y", "none")
  /\ ~HasProp(heap, result, "x")

(***************************************************************************)
(* C4: after a rule with target 'servers[0].url' and value v is applied,  *)
(* result.servers is an array whose element 0 is an object with url = v,  *)
(* and the result has no key literally named 'servers[0]'.                *)
(***************************************************************************)
C4_IndexedTargetIsArrayElement ==
  (Mapping /\ done >= 1 /\ LastRule.target = "servers[0].url"
     /\ RuleValue(before, LastRule) # VUndef)
    => LET servers == GetProp(heap, result, "servers")
       IN /\ IsArr(heap, servers)
          /\ Len(heap[servers.id].items) >= 1
          /\ View(heap, Field(heap, heap[servers.id].items[1], "url"), ViewDepth)
               = RuleValue(before, LastRule)
          /\ ~HasProp(heap, result, "servers[0]")

(***************************************************************************)
(* C5: for every built-in config and every bundled example of it,         *)
(* mapMetadata(example.source, config) is structurally equal to           *)
(* example.expected.                                                       *)
(***************************************************************************)
C5_ExamplesMapToExpected == (pc = "mapped" /\ IsExample) => Doc = Norm(Expected)

(***************************************************************************)
(* C6: for every built-in config and every bundled example of it,         *)
(* validateMapping(example.source, config) returns the empty list.        *)
(***************************************************************************)
C6_ExamplesValidate == (pc = "validated" /\ IsExample) => errors = <<>>

C6_Witness == pc = "validated" /\ IsExample /\ config = "apiBlueprint" /\ errors = <<>>

(***************************************************************************)
(* C7: mapMetadata never throws.  When the source query of a rule is      *)
(* malformed or its transform raises, the failure is caught, the loop     *)
(* goes on (the next iteration can always be taken), mapMetadata returns  *)
(* a document after the last rule, and a rule after the failing one is    *)
(* applied: when it yields a value and does not fail itself, its target   *)
(* holds that value.                                                       *)
(***************************************************************************)
C7_NeverThrows ==
  /\ pc # "thrown"
  /\ (pc = "mapping" /\ done < Len(rules)) => ENABLED MapRule
  /\ (pc = "mapping" /\ done = Len(rules)) => ENABLED MapReturn
  /\ pc = "mapped" => (done = Len(rules) /\ IsObj(heap, result))
  /\ (Mapping /\ done >= 2 /\ (\E i \in warned : i < done) /\ done \notin warned
        /\ RuleValue(before, LastRule) # VUndef)
       => DocAtTarget(LastRule.target) = RuleValue(before, LastRule)

C7_Witness ==
  /\ pc = "mapped"
  /\ rules = <<Rule("$[", "x", "none"), Rule("$.b", "x.y", "none")>>
  /\ IsRef(source)
  /\ warned = {1}
  /\ DocAtTarget("x.y") = VStr("2")

\* the top-level resources of the source
TopResources == Field(heap, source, "resources")
ResourceAt(i) == heap[TopResources.id].items[i]
RelativeUri(i) == Field(heap, ResourceAt(i), "relativeUri")
FirstMethod(i) == Field(heap, First(heap, Field(heap, ResourceAt(i), "methods")), "method")
DisplayName(i) == Field(heap, ResourceAt(i), "displayName")

\* every top-level resource has a relativeUri and at least one method
ResourcesComplete ==
  /\ IsRef(source)
  /\ IsArr(heap, TopResources)
  /\ \A i \in DOMAIN heap[TopResources.id].items :
        RelativeUri(i).t = "str" /\ FirstMethod(i).t = "str"

\* the lower-case form of the method names of the model
LowerMethod(m) ==
  CASE m \in {"GET", "get"} -> "get"
    [] m \in {"POST", "Post"} -> "post"
    [] m \in {"DELETE", "delete"} -> "delete"
    [] OTHER -> "?"

\* result.paths[u][lower-case of m].summary = d, for the i-th resource
SummaryIsDisplayName(i) ==
  ValueAt(heap, result, <<"paths", RelativeUri(i).s, LowerMethod(FirstMethod(i).s), "summary">>)
    = DisplayName(i)

(***************************************************************************)
(* C8, as claimed: through the raml config, when every top-level resource *)
(* has a relativeUri and at least one method, each resource with          *)
(* relativeUri u, first method m and displayName d gives                  *)
(* result.paths[u][lower-case of m].summary = d.                          *)
(***************************************************************************)
C8_EveryResourceHasItsSummary ==
  (pc = "mapped" /\ config = "raml" /\ ResourcesComplete)
    => \A i \in DOMAIN heap[TopResources.id].items : SummaryIsDisplayName(i)

(***************************************************************************)
(* C8, amended: the same for the last resource of each relativeUri: a     *)
(* later resource with the same relativeUri replaces the entry of an      *)
(* earlier one.                                                            *)
(***************************************************************************)
C8_LastResourceHasItsSummary ==
  (pc = "mapped" /\ config = "raml" /\ ResourcesComplete)
    => \A i \in DOMAIN heap[TopResources.id].items :
         (\A j \in DOMAIN heap[TopResources.id].items :
            j > i => RelativeUri(j) # RelativeUri(i))
           => SummaryIsDisplayName(i)

C8_Witness ==
  /\ pc = "mapped" /\ config = "raml" /\ ResourcesComplete
  /\ Len(heap[TopResources.id].items) = 2
  /\ RelativeUri(1) = Str("/users") /\ RelativeUri(2) = Str("/items")
  /\ ValueAt(heap, result, <<"paths", "/users", "get", "summary">>) = Str("Get Users")
  /\ ValueAt(heap, result, <<"paths", "/items", "delete", "summary">>) = Str("Remove")

\* the value of a key of a written object, undefined when it has none
TreeMember(tree, key) ==
  IF tree.t = "obj" /\ \E i \in DOMAIN tree.kv : tree.kv[i][1] = key
  THEN tree.kv[CHOOSE i \in DOMAIN tree.kv : tree.kv[i][1] = key][2]
  ELSE TUndef

\* the keys of a path item that stand for operations
OperationKeys(item) ==
  SelectSeq([i \in DOMAIN item.kv |-> item.kv[i][1]], LAMBDA k : k \notin {"parameters", "$ref"})

\* a written operation is well formed: an object whose parameters, if any, are
\* a list of objects
WellFormedOperation(op) ==
  /\ op.t = "obj"
  /\ TreeMember(op, "parameters").t \in {"undef", "arr"}
  /\ TreeMember(op, "parameters").t = "arr"
       => \A i \in DOMAIN TreeMember(op, "parameters").items :
            TreeMember(op, "parameters").items[i].t = "obj"

\* a written document is a well-formed OpenAPI document: it names its version
\* under openapi or swagger, and its paths are objects of well-formed operations
WellFormedOpenApi(doc) ==
  /\ doc.t = "obj"
  /\ \E k \in {"openapi", "swagger"} : TreeMember(doc, k).t = "str" /\ TreeMember(doc, k).s # ""
  /\ TreeMember(doc, "paths").t = "obj"
  /\ \A i \in DOMAIN TreeMember(doc, "paths").kv :
       LET item == TreeMember(doc, "paths").kv[i][2]
       IN /\ item.t = "obj"
          /\ \A j \in DOMAIN item.kv :
               item.kv[j][1] \notin {"parameters", "$ref"} => WellFormedOperation(item.kv[j][2])

\* the input is the JSON text of a well-formed OpenAPI document, given to
\* parseMetadata as JSON or with no format
IsJsonOpenApi ==
  /\ format \in {"", "json"}
  /\ input.json # <<>>
  /\ input.text = JsonText(input.json[1])
  /\ WellFormedOpenApi(input.json[1])

\* the upper-case form of the keys of the path items of the model
UpperKey(key) ==
  CASE key = "get" -> "GET"
    [] key = "post" -> "POST"
    [] key = "Delete" -> "DELETE"
    [] OTHER -> "?"

\* the (path, key) pairs of the written document, keys other than parameters
\* and $ref, each with the upper-case form of the key
OperationPairs ==
  LET paths == TreeMember(input.json[1], "paths").kv
  IN UNION { { <<paths[i][1], UpperKey(OperationKeys(paths[i][2])[j])>> :
                 j \in DOMAIN OperationKeys(paths[i][2]) } : i \in DOMAIN paths }

\* the endpoints parseMetadata returned for a path and a method
EndpointsOf(path, method) ==
  {i \in DOMAIN parsed.endpoints :
     parsed.endpoints[i].path = Str(path) /\ parsed.endpoints[i].method = Str(method)}

(***************************************************************************)
(* C9: for the JSON text of a well-formed OpenAPI document, parseMetadata *)
(* returns exactly one endpoint per (path, key) pair, key ranging over    *)
(* the keys of the path item other than 'parameters' and '$ref', and the  *)
(* method of each endpoint is the upper-case form of its key.             *)
(***************************************************************************)
C9_OneEndpointPerOperation ==
  (pc \in {"parsed", "rejected"} /\ IsJsonOpenApi)
    => /\ parsed.ok
       /\ Len(parsed.endpoints) = Cardinality(OperationPairs)
       /\ \A pr \in OperationPairs : Cardinality(EndpointsOf(pr[1], pr[2])) = 1

C9_Witness ==
  /\ pc = "parsed" /\ IsJsonOpenApi /\ format = ""
  /\ OperationPairs = {<<"/users", "POST">>, <<"/users", "GET">>, <<"/items", "DELETE">>}
  /\ TreeMember(TreeMember(TreeMember(input.json[1], "paths"), "/items"), "parameters").t = "arr"
  /\ Len(parsed.endpoints) = 3

(***************************************************************************)
(* C10: detectFormat returns 'raml' for every input that starts with      *)
(* '#%RAML', whatever follows, and returns it again on every further call *)
(* on the same input.                                                      *)
(***************************************************************************)
C10_RamlSignatureWins ==
  StartsWith(input.text, "#%RAML") => \A i \in DOMAIN tags : tags[i] = "raml"

C10_Witness ==
  /\ StartsWith(input.text, "#%RAML")
  /\ Includes(input.text, "\"swagger\":")
  /\ tags = <<"raml", "raml">>

\* the format arguments of the model that the switch of parseMetadata knows
KnownFormats == {"json", "JSON", "yaml", "yml", "openapi", "swagger", "raml"}

(***************************************************************************)
(* C11: parseMetadata called with an explicit format that is not one of   *)
(* the recognized formats rejects with an unsupported-format error that   *)
(* names the format as it was given, and resolves to no ParsedMetadata.   *)
(***************************************************************************)
C11_UnknownFormatRejected ==
  (pc \in {"parsed", "rejected"} /\ format # "" /\ format \notin KnownFormats)
    => (pc = "rejected" /\ ~parsed.ok /\ parsed.error = "Unsupported format: " \o format)

C11_Witness ==
  /\ pc = "rejected" /\ format = "Xml"
  /\ input.json # <<>>
  /\ parsed.error = "Unsupported format: Xml"

\* the canonical HTTP verbs, as endpoint methods
CanonicalVerbs ==
  {Str(m) : m \in {"GET", "PUT", "POST", "DELETE", "OPTIONS", "HEAD", "PATCH", "TRACE"}}

(***************************************************************************)
(* C12: in every ParsedMetadata a parser returns (OpenAPI, generic paths  *)
(* object, generic endpoint list, RAML), the method of every endpoint is  *)
(* an upper-case canonical HTTP verb.                                     *)
(***************************************************************************)
C12_MethodsAreUpperCaseVerbs ==
  pc = "parsed" =>
    \A i \in DOMAIN parsed.endpoints : parsed.endpoints[i].method \in CanonicalVerbs

\* the input is the JSON text of a document
IsJsonText == input.json # <<>> /\ input.text = JsonText(input.json[1])

\* a written string as a value, undefined for anything else
AsValue(tree) == IF tree.t = "str" THEN Str(tree.s) ELSE Undef

\* the first of two written members that is a non-empty string
FirstOf(tree, a, b) ==
  IF TreeMember(tree, a).t = "str" /\ TreeMember(tree, a).s # ""
  THEN TreeMember(tree, a) ELSE TreeMember(tree, b)

\* the operations written under paths[i], paths[i + 1], ..., in the order they
\* are written: each as its path and its summary
RECURSIVE WrittenOperations(_, _)
WrittenOperations(paths, i) ==
  IF i > Len(paths) THEN <<>>
  ELSE [j \in DOMAIN OperationKeys(paths[i][2]) |->
          <<Str(paths[i][1]),
            AsValue(TreeMember(TreeMember(paths[i][2], OperationKeys(paths[i][2])[j]),
                               "summary"))>>]
       \o WrittenOperations(paths, i + 1)

\* the endpoints a document describes, in the order it writes them: the
\* operations of its paths object, or else the items of its endpoints list
WrittenEndpoints(doc) ==
  IF TreeMember(doc, "paths").t = "obj" THEN WrittenOperations(TreeMember(doc, "paths").kv, 1)
  ELSE IF TreeMember(doc, "endpoints").t = "arr" /\ TreeMember(doc, "openapi").t = "undef"
            /\ TreeMember(doc, "swagger").t = "undef"
    THEN [i \in DOMAIN TreeMember(doc, "endpoints").items |->
            <<AsValue(FirstOf(TreeMember(doc, "endpoints").items[i], "path", "url")),
              AsValue(FirstOf(TreeMember(doc, "endpoints").items[i], "summary", "name"))>>]
  ELSE <<>>

IsRamlParse ==
  /\ input.raml # <<>> /\ input.json = <<>>
  /\ format = "raml" \/ (format = "" /\ StartsWith(input.text, "#%RAML"))

\* the document the parser was given
SourceTree == IF IsJsonText THEN input.json[1] ELSE input.raml[1]

\* a written document names no title, and no base URL, under any of the keys
\* a parser looks at
NoTitle(doc) ==
  \A k \in {"title", "name", "info"} : TreeMember(doc, k).t = "undef"

NoBaseUrl(doc) ==
  \A k \in {"baseUrl", "basePath", "baseUri", "servers"} : TreeMember(doc, k).t = "undef"

(***************************************************************************)
(* C14: the title and the baseUrl of a ParsedMetadata are never null or   *)
(* undefined, whatever parser built it; the title is 'API' when the       *)
(* document names none and the baseUrl is '' when it names none.          *)
(***************************************************************************)
C14_TitleAndBaseUrlDefaulted ==
  pc = "parsed" =>
    /\ parsed.title.t \notin {"undef", "null"}
    /\ parsed.baseUrl.t \notin {"undef", "null"}
    /\ (IsJsonText \/ IsRamlParse) =>
         /\ NoTitle(SourceTree) => parsed.title = Str("API")
         /\ NoBaseUrl(SourceTree) => parsed.baseUrl = Str("")

C14_Witness ==
  /\ pc = "parsed" /\ IsJsonText
  /\ NoTitle(SourceTree) /\ NoBaseUrl(SourceTree)
  /\ parsed.title = Str("API") /\ parsed.baseUrl = Str("")

\* an AuthDescriptor of type 'none' is not required
NoneIsNotRequired(auth) == auth.type = Str("none") => ~auth.required

(***************************************************************************)
(* C15: every AuthDescriptor the parsers return, for the document and for *)
(* each of its operations, has required = false when its type is 'none'.  *)
(***************************************************************************)
C15_NoneIsNeverRequired ==
  pc = "parsed" =>
    /\ NoneIsNotRequired(parsed.authentication)
    /\ \A i \in DOMAIN parsed.endpoints :
         parsed.endpoints[i].authentication # <<>>
           => NoneIsNotRequired(parsed.endpoints[i].authentication[1])

(***************************************************************************)
(* C16: mapMetadata and validateMapping leave what they are given as it   *)
(* was: at every point of a call, and after it, the source object reads   *)
(* as it did before the call, and the rules of the config are the rules   *)
(* the call was given.                                                    *)
(***************************************************************************)
C16_SourceAndConfigUnchanged ==
  pc \in {"mapping", "mapped", "validated"}
    => /\ View(heap, source, ViewDepth) = Norm(sourceDoc)
       /\ config \in BuiltinNames => rules = mappingConfigs(config)

\* the first step of detection accepts the input: its trimmed text starts with
\* '{' or '[' and is strict JSON
AcceptedAsJson ==
  /\ StartsWith(Trim(input.text), "{") \/ StartsWith(Trim(input.text), "[")
  /\ input.json # <<>>

\* the text holds one of the quoted OpenAPI keys
HasQuotedKey == Includes(input.text, "\"openapi\":") \/ Includes(input.text, "\"swagger\":")

(***************************************************************************)
(* C17: detectFormat answers 'json' for every input whose trimmed text    *)
(* starts with '{' or '[' and is strict JSON, also when the text holds    *)
(* '"openapi":' or '"swagger":'.                                          *)
(***************************************************************************)
C17_JsonIsTriedFirst ==
  \A i \in DOMAIN tags : AcceptedAsJson => tags[i] = "json"

C17_Witness ==
  /\ tags # <<>> /\ AcceptedAsJson /\ HasQuotedKey
  /\ StartsWith(input.text, " ")
  /\ tags[1] = "json"

\* the text holds one of the YAML tokens of an OpenAPI document
HasYamlToken == Includes(input.text, "swagger:") \/ Includes(input.text, "openapi:")

(***************************************************************************)
(* C18: for an input the first step does not accept as JSON, detectFormat *)
(* answers 'yaml' whenever the text reads as YAML and its trimmed form    *)
(* starts with '---' or it holds the token 'swagger:' or 'openapi:'       *)
(* anywhere.                                                              *)
(***************************************************************************)
C18_YamlTokenAnywhere ==
  \A i \in DOMAIN tags :
    (/\ ~AcceptedAsJson
     /\ StartsWith(Trim(input.text), "---") \/ HasYamlToken
     /\ input.yamlTrimmed # <<>>)
      => tags[i] = "yaml"

\* the second and third steps of detection do not apply: the trimmed text has
\* no YAML signature at its start, or does not read as YAML, and it does not
\* start with the RAML signature
NotYamlNorRaml ==
  /\ \/ \A sig \in {"---", "swagger:", "openapi:"} : ~StartsWith(Trim(input.text), sig)
     \/ input.yamlTrimmed = <<>>
  /\ ~StartsWith(Trim(input.text), "#%RAML")

(***************************************************************************)
(* C19: detectFormat answers one of json, yaml, openapi, raml or fails    *)
(* with the detection error; when its JSON, YAML and RAML steps do not    *)
(* apply it answers 'openapi' if the text holds '"swagger":' or           *)
(* '"openapi":' and fails otherwise.                                      *)
(***************************************************************************)
C19_QuotedKeysOrError ==
  \A i \in DOMAIN tags :
    /\ tags[i] \in {"json", "yaml", "openapi", "raml", DetectionError}
    /\ (~AcceptedAsJson /\ NotYamlNorRaml)
         => tags[i] = IF HasQuotedKey THEN "openapi" ELSE DetectionError

C19_Witness ==
  /\ Len(tags) = 2
  /\ ~AcceptedAsJson /\ NotYamlNorRaml /\ HasQuotedKey
  /\ StartsWith(input.text, "{")
  /\ tags[1] = "openapi" /\ tags[2] = "openapi"

(***************************************************************************)
(* C20: parseMetadata, called with no format on a text that starts with   *)
(* '{' or '[', is not strict JSON and reads as YAML, resolves to the      *)
(* ParsedMetadata of the YAML document.                                   *)
(***************************************************************************)
C20_FailedJsonFallsBackToYaml ==
  (/\ pc \in {"parsed", "rejected"} /\ format = ""
   /\ StartsWith(Trim(input.text), "{") \/ StartsWith(Trim(input.text), "[")
   /\ input.json = <<>> /\ input.yaml # <<>>)
    => /\ pc = "parsed"
       /\ parsed = ParseAs(EmptyHeap, input, "yaml").v

\* the error texts of validateMapping
MissingRule(field) == "Missing mapping rule for required field: " \o field
NotFound(field, rule) ==
  "Required field " \o field \o " not found in source data (" \o rule.source \o ")"
InvalidPath(rule) == "Invalid JSONPath expression: " \o rule.source

\* the rules of the config that have exactly the given target, by position
RulesFor(field) == {i \in DOMAIN rules : rules[i].target = field}

\* the errors the rules i, i + 1, ... owe for a field when only a query without
\* a match counts, and when a query that cannot be evaluated counts as well
RECURSIVE NotFoundFrom(_, _)
NotFoundFrom(field, i) ==
  IF i > Len(rules) THEN <<>>
  ELSE (IF i \in RulesFor(field) /\ MatchesNothing(heap, rules[i])
        THEN <<NotFound(field, rules[i])>> ELSE <<>>)
       \o NotFoundFrom(field, i + 1)

RECURSIVE RuleErrorsFrom(_, _)
RuleErrorsFrom(field, i) ==
  IF i > Len(rules) THEN <<>>
  ELSE (IF i \notin RulesFor(field) \/ Matches(heap, rules[i]) THEN <<>>
        ELSE IF MatchesNothing(heap, rules[i]) THEN <<NotFound(field, rules[i])>>
        ELSE <<InvalidPath(rules[i])>>)
       \o RuleErrorsFrom(field, i + 1)

(***************************************************************************)
(* C21, as claimed: validateMapping returns, for info.title and then for  *)
(* info.version, one 'missing mapping rule' error when no rule has that    *)
(* target and otherwise one 'not found in source data' error per rule     *)
(* with that target whose query has no match, and nothing else.           *)
(***************************************************************************)
C21_MissingOrNotFoundOnly ==
  pc = "validated" =>
    errors = (IF RulesFor("info.title") = {} THEN <<MissingRule("info.title")>>
              ELSE NotFoundFrom("info.title", 1))
             \o (IF RulesFor("info.version") = {} THEN <<MissingRule("info.version")>>
                 ELSE NotFoundFrom("info.version", 1))

(***************************************************************************)
(* C21, amended: as above, and a rule with one of the two targets whose   *)
(* query cannot be evaluated owes one 'invalid JSONPath expression' error *)
(* instead; the list is empty exactly when none of the three cases occurs.*)
(***************************************************************************)
C21_MissingNotFoundOrInvalid ==
  pc = "validated" =>
    errors = (IF RulesFor("info.title") = {} THEN <<MissingRule("info.title")>>
              ELSE RuleErrorsFrom("info.title", 1))
             \o (IF RulesFor("info.version") = {} THEN <<MissingRule("info.version")>>
                 ELSE RuleErrorsFrom("info.version", 1))

C21_Witness ==
  /\ pc = "validated" /\ Len(rules) = 4
  /\ Cardinality(RulesFor("info.title")) = 2
  /\ rules[3].target = "x" /\ MatchesNothing(heap, rules[3])
  /\ errors = <<NotFound("info.title", rules[2])>>

\* the errors validateMapping returned, as a set
Reported == {errors[k] : k \in DOMAIN errors}

\* rule j for field g is checked after rule i for field f
CheckedAfter(f, i, g, j) == (f = g /\ i < j) \/ (f = "info.title" /\ g = "info.version")

(***************************************************************************)
(* C22: validateMapping returns whatever the source paths are.  A rule    *)
(* for info.title or info.version whose source query cannot be evaluated  *)
(* adds an 'invalid JSONPath expression' error for that rule, and what is *)
(* checked after it is still checked: a later rule without a match still  *)
(* gets its 'not found' error and a later field without a rule its        *)
(* 'missing mapping rule' error.                                          *)
(***************************************************************************)
C22_MalformedPathIsReported ==
  /\ pc = "idle" => ENABLED ValidateMapping
  /\ pc = "validated" =>
       \A f \in {"info.title", "info.version"} : \A i \in RulesFor(f) :
         ~Query(heap, rules[i]).ok =>
           /\ InvalidPath(rules[i]) \in Reported
           /\ \A g \in {"info.title", "info.version"} : \A j \in RulesFor(g) :
                (CheckedAfter(f, i, g, j) /\ MatchesNothing(heap, rules[j]))
                  => NotFound(g, rules[j]) \in Reported
           /\ (f = "info.title" /\ RulesFor("info.version") = {})
                => MissingRule("info.version") \in Reported

C22_Witness ==
  /\ pc = "validated" /\ IsRef(source) /\ Len(rules) = 3
  /\ rules[2] = Rule("$[", "info.version", "none")
  /\ errors = <<InvalidPath(rules[2]), NotFound("info.version", rules[3])>>

\* a written value is an object with at least one member
NonEmptyObject(tree) == tree.t = "obj" /\ tree.kv # <<>>

\* the first written member of a non-empty object
FirstWritten(tree) == tree.kv[1][2]

\* a written string, or a default when there is none
WrittenOr(tree, default) ==
  IF tree.t = "str" /\ tree.s # "" THEN Str(tree.s) ELSE Str(default)

\* the OpenAPI scheme map of a written document that counts: the one under
\* components when it is non-empty, else the legacy one
WrittenSchemes(doc) ==
  IF NonEmptyObject(TreeMember(TreeMember(doc, "components"), "securitySchemes"))
  THEN TreeMember(TreeMember(doc, "components"), "securitySchemes")
  ELSE TreeMember(doc, "securityDefinitions")

\* the generic auth object of a written document
WrittenAuth(doc) ==
  IF TreeMember(doc, "auth").t = "obj" THEN TreeMember(doc, "auth")
  ELSE TreeMember(doc, "authentication")

\* the descriptor of the first applicable source of a written document
FirstApplicableAuth(doc) ==
  IF NonEmptyObject(WrittenSchemes(doc)) THEN
    Auth(AsValue(TreeMember(FirstWritten(WrittenSchemes(doc)), "type")),
         TreeMember(doc, "security").t = "arr" /\ TreeMember(doc, "security").items # <<>>,
         WrittenOr(TreeMember(FirstWritten(WrittenSchemes(doc)), "in"), "header"))
  ELSE IF NonEmptyObject(TreeMember(doc, "securitySchemes")) THEN
    Auth(AsValue(TreeMember(FirstWritten(TreeMember(doc, "securitySchemes")), "type")),
         TRUE,
         IF TreeMember(TreeMember(FirstWritten(TreeMember(doc, "securitySchemes")),
                                  "describedBy"), "headers").t = "obj"
         THEN Str("header") ELSE Str("query"))
  ELSE IF WrittenAuth(doc).t = "obj" THEN
    Auth(WrittenOr(TreeMember(WrittenAuth(doc), "type"), "apiKey"),
         TreeMember(WrittenAuth(doc), "required") # TBool(FALSE),
         WrittenOr(TreeMember(WrittenAuth(doc), "location"), "header"))
  ELSE NoAuth

\* the input is the JSON text of an object without paths or of a well-formed
\* OpenAPI document, given to parseMetadata with no format
IsPlainJsonObject ==
  /\ IsJsonText /\ format = ""
  /\ input.json[1].t = "obj"
  /\ TreeMember(input.json[1], "paths").t = "undef" \/ WellFormedOpenApi(input.json[1])

(***************************************************************************)
(* C23: the document-level authentication of a ParsedMetadata is the      *)
(* descriptor of the first applicable source of the document: non-empty   *)
(* OpenAPI security schemes, then RAML securitySchemes, then a generic    *)
(* auth or authentication object, else { type: 'none', required: false }; *)
(* scheme maps that are present but empty do not make the parse fail.     *)
(***************************************************************************)
C23_FirstApplicableAuth ==
  (pc \in {"parsed", "rejected"} /\ IsPlainJsonObject)
    => /\ pc = "parsed"
       /\ parsed.authentication = FirstApplicableAuth(input.json[1])

\* the requests of the collection, by position
RequestsOfCollection == {k \in DOMAIN collection.resources : collection.resources[k]._type = "request"}

\* request k of the collection was made for endpoint i
RequestOf(k, i) ==
  /\ collection.resources[k].method = parsed.endpoints[i].method
  /\ collection.resources[k].url = "{{ base_url }}" \o parsed.endpoints[i].path.s

(***************************************************************************)
(* C24: the authentication of the request made for an endpoint is that of *)
(* the endpoint's own descriptor when its type is not 'none', and that of *)
(* the document's descriptor otherwise, in particular for an endpoint     *)
(* whose operation declares neither security nor securedBy.               *)
(***************************************************************************)
C24_DocumentAuthIsTheDefault ==
  pc = "generated" =>
    \A k \in RequestsOfCollection : \A i \in DOMAIN parsed.endpoints :
      RequestOf(k, i)
        => collection.resources[k].authentication
             = RequestAuth(AuthUnlessNone(parsed.endpoints[i], parsed))

\* the upper-case form of the methods of the RAML apis of the model
UpperMethod(m) ==
  CASE m = "get" -> "GET"
    [] m = "Post" -> "POST"
    [] m = "put" -> "PUT"
    [] m = "delete" -> "DELETE"
    [] m = "options" -> "OPTIONS"
    [] OTHER -> "?"

\* the endpoints a written resource tree describes, depth first: for each
\* resource its own methods under the concatenated path, then its nested
\* resources in their order
RECURSIVE WrittenResource(_, _)
RECURSIVE WrittenResources(_, _, _)
WrittenResources(resources, i, parentPath) ==
  IF i > Len(resources) THEN <<>>
  ELSE WrittenResource(resources[i], parentPath) \o WrittenResources(resources, i + 1, parentPath)

WrittenResource(resource, parentPath) ==
  LET path == parentPath \o (IF TreeMember(resource, "relativeUri").t = "str"
                             THEN TreeMember(resource, "relativeUri").s ELSE "")
      methods == TreeMember(resource, "methods")
      nested == TreeMember(resource, "resources")
  IN (IF methods.t = "arr"
      THEN [j \in DOMAIN methods.items |->
              <<Str(path), Str(UpperMethod(TreeMember(methods.items[j], "method").s))>>]
      ELSE <<>>)
     \o (IF nested.t = "arr" THEN WrittenResources(nested.items, 1, path) ELSE <<>>)

(***************************************************************************)
(* C25: parseRAML ends on every resource tree, and its endpoints are those *)
(* of a depth-first walk from the root: one endpoint per entry of a       *)
(* resource's methods, under the concatenation of the relativeUri values  *)
(* from the root down to the resource, a resource's own endpoints before  *)
(* those of its nested resources.                                         *)
(***************************************************************************)
C25_RamlWalkIsDepthFirst ==
  /\ pc = "ready" => ENABLED ParseMetadata
  /\ (pc \in {"parsed", "rejected"} /\ IsRamlParse)
       => /\ pc = "parsed"
          /\ Len(parsed.endpoints) = Len(WrittenResource(input.raml[1], ""))
          /\ \A i \in DOMAIN parsed.endpoints :
               /\ parsed.endpoints[i].path = WrittenResource(input.raml[1], "")[i][1]
               /\ parsed.endpoints[i].method = WrittenResource(input.raml[1], "")[i][2]

C25_Witness ==
  /\ pc = "parsed" /\ IsRamlParse /\ format = ""
  /\ Len(parsed.endpoints) = 5
  /\ parsed.endpoints[1].path = Str("") /\ parsed.endpoints[1].method = Str("OPTIONS")
  /\ parsed.endpoints[2].path = Str("/a/b")
  /\ parsed.endpoints[3].path = Str("/a/b/c") /\ parsed.endpoints[3].method = Str("PUT")
  /\ parsed.endpoints[5].path = Str("/a/d")

(***************************************************************************)
(* C26: a rule whose application raises (in its query, its transform, the *)
(* walk of its target or the assignment) contributes nothing: the         *)
(* document after the rule is the document before it.                     *)
(***************************************************************************)
C26_FailedRuleLeavesNoTrace ==
  (Mapping /\ done >= 1 /\ done \in warned)
    => View(heap, result, ViewDepth) = View(before, result, ViewDepth)


(***************************************************************************)
(* C27  splitCensusApiRequest                                              *)
(***************************************************************************)
\* the variables of the request as written: trimmed, the empty ones left out
WrittenVars ==
  SelectSeq([k \in 1..Len(census.names) |-> Trim(census.names[k])], LAMBDA v : v # "")

\* the c-th run of at most varLimit variables of the request as written
WrittenChunk(c) ==
  SubSeq(WrittenVars, (c - 1) * varLimit + 1,
         IF c * varLimit < Len(WrittenVars) THEN c * varLimit ELSE Len(WrittenVars))

\* the variables of the request are split into ceil(n / varLimit) URLs, in
\* order, each between the base and the rest of the request
SplitInOrder ==
  /\ Len(splitUrls) = (Len(WrittenVars) + varLimit - 1) \div varLimit
  /\ \A c \in 1..Len(splitUrls) :
       splitUrls[c] = census.base \o JoinVars(WrittenChunk(c), 1) \o census.rest

\* the request is written with '?get=' before its variables, in lower case
\* or in any letter case
HasGet == Includes(census.base, "?get=")
HasGetAnyCase == Includes(ToLowerCase(census.base), "?get=")

\* C27 (as stated): for a URL <base>?get=<variables><rest> and a varLimit of at
\* least 1, splitCensusApiRequest returns a non-empty list of URLs with the
\* same base and rest, at most varLimit variables each, which together hold
\* the trimmed, non-empty variables in order, ceil(n / varLimit) URLs for
\* n >= 1 variables; a URL without '?get=' is returned as the only element.
C27_SplitOnLowerCaseGet ==
  pc = "split" =>
    /\ splitUrls # <<>>
    /\ HasGet /\ WrittenVars # <<>> => SplitInOrder
    /\ ~Includes(url, "?get=") => splitUrls = <<url>>

\* C27 (amended): the same, where '?get=' is recognised in any letter case:
\* a URL with '?GET=' is split too, and the URL returned as the only
\* element is one without '?get=' in any letter case.
C27_SplitOnGetInAnyCase ==
  pc = "split" =>
    /\ splitUrls # <<>>
    /\ HasGetAnyCase /\ WrittenVars # <<>> => SplitInOrder
    /\ ~Includes(ToLowerCase(url), "?get=") => splitUrls = <<url>>

\* a request of three variables, one of them written with blanks around it,
\* was split into two URLs of at most two variables
C27_Witness ==
  /\ pc = "split"
  /\ HasGetAnyCase
  /\ Len(WrittenVars) = 3
  /\ \E k \in 1..Len(census.names) : census.names[k] = " B01 "
  /\ varLimit = 2
  /\ Len(splitUrls) = 2
  /\ census.rest # ""


(***************************************************************************)
(* C28  a source that validates maps to a document with its title and     *)
(* version                                                                 *)
(***************************************************************************)
\* the source as it was loaded, before any call
Loaded == Load(sourceDoc).h

\* validateMapping(source, config) returns the empty list
Validates == validateMapping(Loaded, source, rules) = <<>>

\* the first match of the rule of a required field in the source
FirstMatch(field) ==
  Query(Loaded, rules[CHOOSE k \in 1..Len(rules) : rules[k].target = field]).vals[1]

\* C28: for each built-in config and any source, if validateMapping returns
\* the empty list then the document returned by mapMetadata has info.title
\* and info.version both defined, each the first match of the source path of
\* its rule.
C28_ValidatedSourceHasTitleAndVersion ==
  (pc = "mapped" /\ config \in BuiltinNames /\ Validates) =>
    \A f \in {"info.title", "info.version"} :
      /\ AtTarget(heap, f) # Undef
      /\ AtTarget(heap, f) = FirstMatch(f)

\* a source that is not a bundled example validated and was mapped
C28_Witness ==
  /\ pc = "mapped"
  /\ config \in BuiltinNames
  /\ ~IsExample
  /\ Validates
  /\ AtTarget(heap, "info.title") = FirstMatch("info.title")
  /\ AtTarget(heap, "info.title").t = "str"


(***************************************************************************)
(* C29  the ids and parents of the generated collection                    *)
(***************************************************************************)
Resources29 == collection.resources

\* the folders of the collection
FoldersOfCollection == {k \in DOMAIN Resources29 : Resources29[k]._type = "request_group"}

\* no two resources of the collection have the same _id
DistinctIds ==
  \A a \in DOMAIN Resources29 : \A b \in DOMAIN Resources29 :
    a # b => Resources29[a]._id # Resources29[b]._id

\* the parent of every request is the folder of the group of its endpoint
ParentIsGroupFolder ==
  \A k \in RequestsOfCollection : \A i \in DOMAIN parsed.endpoints :
    RequestOf(k, i) =>
      \E f \in FoldersOfCollection :
        /\ Resources29[f].name = GroupName(parsed.endpoints[i])
        /\ Resources29[f]._id = Resources29[k].parentId

\* there are as many requests for an endpoint as endpoints like it, and no
\* other request
OneRequestPerEndpoint ==
  /\ Cardinality(RequestsOfCollection) = Len(parsed.endpoints)
  /\ \A i \in DOMAIN parsed.endpoints :
       Cardinality({k \in RequestsOfCollection : RequestOf(k, i)})
         = Cardinality({j \in DOMAIN parsed.endpoints :
                          /\ parsed.endpoints[j].method = parsed.endpoints[i].method
                          /\ parsed.endpoints[j].path = parsed.endpoints[i].path})

\* C29: in the collection returned by generateInsomniaCollection, whatever
\* the clock returns during the call, all resources have pairwise distinct
\* _id, the parentId of every request is the _id of the folder of its group,
\* and there is exactly one request per endpoint.
C29_IdsDistinctAndParentsAreFolders ==
  pc = "generated" => DistinctIds /\ ParentIsGroupFolder /\ OneRequestPerEndpoint


(***************************************************************************)
(* C30  the output of the mapping page                                     *)
(***************************************************************************)
\* the source text of the page can be read, by JSON.parse or by yaml.load
SourceIsRead == sourceMetadata.json # <<>> \/ sourceMetadata.yaml # <<>>

\* the output shown is what mapMetadata gives for the source text and the
\* format the page shows now
OutputIsCurrent ==
  /\ validationErrors = <<>>
  /\ selectedFormat \in BuiltinNames
  /\ SourceIsRead
  /\ Conversion(sourceMetadata, selectedFormat).mapped
  /\ mappedOutput = Conversion(sourceMetadata, selectedFormat).doc

\* C30: on the mapping page, after any sequence of format selections, source
\* edits, file uploads and Convert clicks, whenever mappedOutput is non-null
\* validationErrors is empty and mappedOutput is the result of mapMetadata on
\* the current source text with the config of the selected format; and
\* isConverting is false again after every Convert click.
C30_OutputIsCurrent ==
  /\ mappedOutput # NoOutput => OutputIsCurrent
  /\ pc = "converted" => isConverting = FALSE

====
